---- MODULE Spec2Model ----
(***************************************************************************)
(* Model of the EPA STORET parser/exporter (src/src/parse_state_data.py):  *)
(* the Record Reader, the three entity extractors, the artifact writers,   *)
(* StateDataParser.run and main.                                           *)
(*                                                                         *)
(* A Python string is a sequence of atoms: an atom is a whitespace         *)
(* character (" " or "\n") or a run of non-whitespace text.  '' is << >>,  *)
(* 'Code' is <<"Code">>, ' Code\n' is <<" ", "Code", "\n">>.  A string     *)
(* that starts with three dashes has "---" as its first atom.              *)
(* A line of a file is the sequence of its tab-separated raw fields.       *)
(* Python indices are 0-based: row[i] of the code is row[i + 1] here.      *)
(***************************************************************************)
EXTENDS Integers, Sequences, FiniteSets, TLC

VARIABLES
    pc,            \* position of the process in main / run
    runNo,         \* number of the current invocation of the command
    dataDirExists, \* actual_data_dir.exists()
    stateName,     \* args.state_name / self.state_name
    invFiles,      \* files matched by {ABBR}_*_inv.txt, in glob order
    staFiles,      \* files matched by {ABBR}_*/{ABBR}_*_sta_*.txt, in glob order
    resFiles,      \* files matched by {ABBR}_*/{ABBR}_*_res_*.txt, in glob order
    parameters,    \* self.parameters
    stations,      \* self.stations
    results,       \* self.results
    outDir,        \* the output directory: file name -> content, or Absent
    log,           \* the operations performed so far, in order
    stdout,        \* the messages printed so far, in order
    exitCode,      \* exit status of the last ended invocation, or Running
    shPc,          \* position of the shell in import_to_sqlite.sh, or "idle"
    loadNo,        \* number of the current execution of import_to_sqlite.sh
    db,            \* the database file DB_FILE
    shLog,         \* what the executions of the script did and printed
    shExit,        \* exit status of the last ended execution, or Running
    ctPc,          \* position of export_to_sqlite.py in copy_table, or "idle"
    ctSource,      \* the rows of the PostgreSQL table, in the order of SELECT
    ctBatchSize,   \* batch_size
    ctTotal,       \* total
    ctNext,        \* the place of the row that pg_cursor yields next
    ctBatch,       \* batch
    ctCopied,      \* copied
    ctTarget,      \* the rows inserted into the SQLite table, in order
    ctCommitted,   \* how many of them have been committed
    ctLog          \* the sizes of the batches given to executemany, in order

vars == <<pc, runNo, dataDirExists, stateName, invFiles, staFiles, resFiles,
          parameters, stations, results, outDir, log, stdout, exitCode,
          shPc, loadNo, db, shLog, shExit,
          ctPc, ctSource, ctBatchSize, ctTotal, ctNext, ctBatch, ctCopied,
          ctTarget, ctCommitted, ctLog>>

----------------------------------------------------------------------------
(* Bounds of the model *)

\* at most this many files of one category in the input directory
MaxFiles == 2
\* at most this many data lines over the input files of one category
MaxRows == 2
\* at most this many invocations of the command on one output directory
MaxRuns == 2
\* at most this many executions of the generated load script
MaxLoads == 2

\* at most this many method calls by a program that uses the class itself
MaxCalls == 4

\* at most this many rows in the table that copy_table copies
MaxCopyRows == 4
\* batch_size is at most this
MaxBatchSize == 3

----------------------------------------------------------------------------
(* Strings *)

Whitespace == {" ", "\n"}

RECURSIVE lstrip(_)
lstrip(s) ==
    IF s # << >> /\ Head(s) \in Whitespace THEN lstrip(Tail(s)) ELSE s

RECURSIVE rstrip(_)
rstrip(s) ==
    IF s # << >> /\ s[Len(s)] \in Whitespace
    THEN rstrip(SubSeq(s, 1, Len(s) - 1))
    ELSE s

\* str.strip()
strip(s) == rstrip(lstrip(s))

\* str.startswith(prefix), for a prefix that is one atom
startswith(s, atom) == s # << >> /\ Head(s) = atom

\* [f.strip() for f in line.split('\t')]
StripFields(line) == [i \in 1..Len(line) |-> strip(line[i])]

\* line.strip() is non-empty: tabs are whitespace too, so a line is blank
\* exactly when every one of its fields is
NonBlank(line) == \E i \in 1..Len(line) : strip(line[i]) # << >>

----------------------------------------------------------------------------
(* Record Reader *)

RECURSIVE DataRows(_)
DataRows(lines) ==
    IF lines = << >> THEN << >>
    ELSE IF NonBlank(Head(lines))
         THEN <<StripFields(Head(lines))>> \o DataRows(Tail(lines))
         ELSE DataRows(Tail(lines))

\* Faulty variant: the failure to open is not turned into "no data" and the
\* file's lines are parsed all the same
parse_tab_delimited_file_ignoring_open_error(file) ==
    IF Len(file.lines) < 2
    THEN [headers |-> << >>, rows |-> << >>, warned |-> FALSE]
    ELSE [headers |-> StripFields(file.lines[1]),
          rows    |-> DataRows(SubSeq(file.lines, 3, Len(file.lines))),
          warned  |-> ~file.readable]

\* Faulty variant: only the header line is left out, the second line is
\* taken for data
parse_tab_delimited_file_keeps_second_line(file) ==
    IF ~file.readable
    THEN [headers |-> << >>, rows |-> << >>, warned |-> TRUE]
    ELSE IF Len(file.lines) < 2
    THEN [headers |-> << >>, rows |-> << >>, warned |-> FALSE]
    ELSE [headers |-> StripFields(file.lines[1]),
          rows    |-> DataRows(SubSeq(file.lines, 2, Len(file.lines))),
          warned  |-> FALSE]

\* Faulty variant: a file of one line gives its header
parse_tab_delimited_file_reads_one_line(file) ==
    IF ~file.readable
    THEN [headers |-> << >>, rows |-> << >>, warned |-> TRUE]
    ELSE IF Len(file.lines) < 1
    THEN [headers |-> << >>, rows |-> << >>, warned |-> FALSE]
    ELSE [headers |-> StripFields(file.lines[1]),
          rows    |-> DataRows(SubSeq(file.lines, 3, Len(file.lines))),
          warned  |-> FALSE]

\* parse_tab_delimited_file(filepath): headers, data rows, and whether the
\* "Could not read" warning was printed
parse_tab_delimited_file(file) ==
    IF ~file.readable
    THEN [headers |-> << >>, rows |-> << >>, warned |-> TRUE]
    ELSE IF Len(file.lines) < 2
    THEN [headers |-> << >>, rows |-> << >>, warned |-> FALSE]
    ELSE [headers |-> StripFields(file.lines[1]),
          rows    |-> DataRows(SubSeq(file.lines, 3, Len(file.lines))),
          warned  |-> FALSE]

\* the number of warnings the reader prints over a list of files
RECURSIVE ReadWarnings(_)
ReadWarnings(files) ==
    IF files = << >> THEN 0
    ELSE (IF parse_tab_delimited_file(Head(files)).warned THEN 1 ELSE 0)
         + ReadWarnings(Tail(files))

----------------------------------------------------------------------------
(* Inventory extraction *)

\* None; "if not county_name" treats None and '' alike
None == << >>

RECURSIVE ReplaceUnderscore(_)
ReplaceUnderscore(s) ==
    IF s = << >> THEN << >>
    ELSE <<IF Head(s) = "_" THEN " " ELSE Head(s)>> \o ReplaceUnderscore(Tail(s))

\* extract_county_name(filename) for a file name {ABBR}_<county>_inv.txt that
\* the glob {ABBR}_*_inv.txt matched: the pattern {ABBR}_(.+?)_inv\.txt needs
\* at least one character between the two underscores, the glob none
extract_county_name(county) ==
    IF county = << >> THEN None ELSE ReplaceUnderscore(county)

\* code in param_dict
HasCode(param_dict, code) ==
    \E i \in 1..Len(param_dict) : param_dict[i].code = code

\* Faulty variant: a later row with the same code overwrites the entry
InventoryRow_last_writer_wins(param_dict, row) ==
    IF Len(row) >= 3
    THEN LET code == strip(row[1])
             rec  == [code |-> code, short_name |-> strip(row[2]),
                      long_name |-> strip(row[3])]
         IN IF code = << >> \/ code = <<"Code">> \/ startswith(code, "---")
            THEN param_dict
            ELSE IF HasCode(param_dict, code)
                 THEN [i \in 1..Len(param_dict) |->
                          IF param_dict[i].code = code THEN rec
                          ELSE param_dict[i]]
                 ELSE Append(param_dict, rec)
    ELSE param_dict

\* Faulty variant: the number of fields of the row is not looked at
InventoryRow_no_length_gate(param_dict, row) ==
    LET code       == strip(row[1])
        short_name == IF Len(row) > 1 THEN strip(row[2]) ELSE << >>
        long_name  == IF Len(row) > 2 THEN strip(row[3]) ELSE << >>
    IN IF code = << >> \/ code = <<"Code">> \/ startswith(code, "---")
       THEN param_dict
       ELSE IF ~HasCode(param_dict, code)
            THEN Append(param_dict,
                        [code |-> code, short_name |-> short_name,
                         long_name |-> long_name])
            ELSE param_dict

\* the body of "for row in rows" of parse_inventory_files: the dict after
\* this row (a dict keeps insertion order, here the order of the sequence)
InventoryRow(param_dict, row) ==
    IF Len(row) >= 3
    THEN LET code       == strip(row[1])
             short_name == IF Len(row) > 1 THEN strip(row[2]) ELSE << >>
             long_name  == IF Len(row) > 2 THEN strip(row[3]) ELSE << >>
         IN IF code = << >> \/ code = <<"Code">> \/ startswith(code, "---")
            THEN param_dict
            ELSE IF ~HasCode(param_dict, code)
                 THEN Append(param_dict,
                             [code |-> code, short_name |-> short_name,
                              long_name |-> long_name])
                 ELSE param_dict
    ELSE param_dict

RECURSIVE InventoryRows(_, _)
InventoryRows(param_dict, rows) ==
    IF rows = << >> THEN param_dict
    ELSE InventoryRows(InventoryRow(param_dict, Head(rows)), Tail(rows))

\* Faulty variant: once a file has given parameters, later files are ignored
InventoryFile_first_file_only(param_dict, file) ==
    IF param_dict # << >> \/ extract_county_name(file.county) = None
    THEN param_dict
    ELSE LET parsed == parse_tab_delimited_file(file)
         IN IF parsed.headers = << >> THEN param_dict
            ELSE InventoryRows(param_dict, parsed.rows)

\* the body of "for inv_file in inv_files"
InventoryFile(param_dict, file) ==
    IF extract_county_name(file.county) = None THEN param_dict
    ELSE LET parsed == parse_tab_delimited_file(file)
         IN IF parsed.headers = << >> THEN param_dict
            ELSE InventoryRows(param_dict, parsed.rows)

RECURSIVE InventoryFiles(_, _)
InventoryFiles(param_dict, files) ==
    IF files = << >> THEN param_dict
    ELSE InventoryFiles(InventoryFile(param_dict, Head(files)), Tail(files))

\* the files of an inventory scan that reach the reader
RECURSIVE InventoryRead(_)
InventoryRead(files) ==
    IF files = << >> THEN << >>
    ELSE (IF extract_county_name(Head(files).county) = None THEN << >>
          ELSE <<Head(files)>>) \o InventoryRead(Tail(files))

----------------------------------------------------------------------------
(* Column resolution *)

\* name in header_map
InHeader(headers, name) == \E i \in 1..Len(headers) : headers[i] = name

\* header_map[name] for header_map = {h: i for i, h in enumerate(headers)}:
\* the 0-based index of the last column of that name
HeaderIndex(headers, name) ==
    (CHOOSE i \in 1..Len(headers) :
        /\ headers[i] = name
        /\ \A j \in 1..Len(headers) : headers[j] = name => j <= i) - 1

\* header_map.get(name, default)
HeaderGet(headers, name, default) ==
    IF InHeader(headers, name) THEN HeaderIndex(headers, name) ELSE default

\* Faulty variant: the field is read at its conventional position whatever
\* the header says
Resolve_by_position(headers, row, name, default) ==
    IF InHeader(headers, name) /\ Len(row) > default
    THEN strip(row[default + 1])
    ELSE << >>

\* row[header_map.get(name, default)].strip()
\*     if name in header_map and len(row) > header_map[name] else ''
Resolve(headers, row, name, default) ==
    IF InHeader(headers, name) /\ Len(row) > HeaderIndex(headers, name)
    THEN strip(row[HeaderGet(headers, name, default) + 1])
    ELSE << >>

----------------------------------------------------------------------------
(* Station extraction *)

\* station_id in station_dict
HasStation(station_dict, station_id) ==
    \E i \in 1..Len(station_dict) : station_dict[i].station_id = station_id

\* the index the code reads the station id from
StationIdIndex(headers) == HeaderGet(headers, <<"Station">>, 1)

\* row[header_map.get('Station', 1)] raises IndexError: the one field of the
\* station extractor that is read without a length check
StationIdRaises(headers, row) ==
    Len(row) >= 2 /\ StationIdIndex(headers) >= Len(row)

\* Faulty variant: the description is looked up by header name like the
\* other fields
StationData_description_by_header(headers, row, station_id, state_name) ==
    [agency       |-> Resolve(headers, row, <<"Agency">>, 0),
     station_id   |-> station_id,
     station_name |-> Resolve(headers, row, <<"Station Name">>, 2),
     agency_name  |-> Resolve(headers, row, <<"Agency Name">>, 3),
     state        |-> <<state_name>>,
     county       |-> Resolve(headers, row, <<"County Name">>, 5),
     latitude     |-> Resolve(headers, row, <<"Latitude">>, 6),
     longitude    |-> Resolve(headers, row, <<"Longitude">>, 7),
     huc          |-> Resolve(headers, row, <<"HUC">>, 8),
     station_type |-> Resolve(headers, row, <<"Station Type">>, -4),
     description  |-> Resolve(headers, row, <<"Description">>, 10)]

\* the station_data dict of one row
StationData(headers, row, station_id, state_name) ==
    [agency       |-> Resolve(headers, row, <<"Agency">>, 0),
     station_id   |-> station_id,
     station_name |-> Resolve(headers, row, <<"Station Name">>, 2),
     agency_name  |-> Resolve(headers, row, <<"Agency Name">>, 3),
     state        |-> <<state_name>>,
     county       |-> Resolve(headers, row, <<"County Name">>, 5),
     latitude     |-> Resolve(headers, row, <<"Latitude">>, 6),
     longitude    |-> Resolve(headers, row, <<"Longitude">>, 7),
     huc          |-> Resolve(headers, row, <<"HUC">>, 8),
     station_type |-> Resolve(headers, row, <<"Station Type">>, -4),
     description  |-> IF Len(row) > 0 THEN strip(row[Len(row)]) ELSE << >>]

\* the body of "for row in rows" of parse_station_files; st.raised says that
\* an IndexError has left the loops
StationRow(st, headers, row, state_name) ==
    IF st.raised \/ Len(row) < 2 THEN st
    ELSE IF StationIdRaises(headers, row) THEN [st EXCEPT !.raised = TRUE]
    ELSE LET station_id == strip(row[StationIdIndex(headers) + 1])
         IN IF station_id = << >> \/ HasStation(st.dict, station_id) THEN st
            ELSE [st EXCEPT !.dict =
                     Append(@, StationData(headers, row, station_id, state_name))]

RECURSIVE StationRows(_, _, _, _)
StationRows(st, headers, rows, state_name) ==
    IF rows = << >> THEN st
    ELSE StationRows(StationRow(st, headers, Head(rows), state_name),
                     headers, Tail(rows), state_name)

\* the body of "for sta_file in sta_files"
StationFile(st, file, state_name) ==
    IF st.raised THEN st
    ELSE LET parsed == parse_tab_delimited_file(file)
         IN IF parsed.headers = << >> THEN st
            ELSE StationRows(st, parsed.headers, parsed.rows, state_name)

RECURSIVE StationFiles(_, _, _)
StationFiles(st, files, state_name) ==
    IF files = << >> THEN st
    ELSE StationFiles(StationFile(st, Head(files), state_name),
                      Tail(files), state_name)

\* the number of warnings a station scan prints: one for every file that
\* cannot be read among those it opens, which are all the files, or those up
\* to the file whose row raises
RECURSIVE StationWarnings(_, _)
StationWarnings(files, state_name) ==
    IF files = << >> THEN 0
    ELSE (IF parse_tab_delimited_file(Head(files)).warned THEN 1 ELSE 0)
         + (IF StationFile([raised |-> FALSE, dict |-> << >>],
                           Head(files), state_name).raised
            THEN 0 ELSE StationWarnings(Tail(files), state_name))

----------------------------------------------------------------------------
(* Result extraction *)

\* the structural-validity gate of parse_result_files
MinResultColumns == 10

\* the result_data dict of one row
ResultData(headers, row) ==
    [agency       |-> Resolve(headers, row, <<"Agency">>, 0),
     station_id   |-> Resolve(headers, row, <<"Station">>, 1),
     param_code   |-> Resolve(headers, row, <<"Param">>, 11),
     start_date   |-> Resolve(headers, row, <<"Start Date">>, 12),
     start_time   |-> Resolve(headers, row, <<"Start Time">>, 13),
     result_value |-> Resolve(headers, row, <<"Result Value">>, 8),
     huc          |-> Resolve(headers, row, <<"HUC">>, 10),
     sample_depth |-> Resolve(headers, row, <<"Sample Depth">>, 16)]

\* Faulty variant: a row without a station id or a parameter code is dropped
ResultRow_requires_ids(res, headers, row) ==
    IF Len(row) < MinResultColumns THEN res
    ELSE IF ResultData(headers, row).station_id = << >>
            \/ ResultData(headers, row).param_code = << >>
         THEN res
         ELSE Append(res, ResultData(headers, row))

\* Faulty variant: the gate is off by one and drops rows of exactly ten columns
ResultRow_gate_off_by_one(res, headers, row) ==
    IF Len(row) <= MinResultColumns THEN res
    ELSE Append(res, ResultData(headers, row))

\* the body of "for row in rows" of parse_result_files
ResultRow(res, headers, row) ==
    IF Len(row) < MinResultColumns THEN res
    ELSE Append(res, ResultData(headers, row))

RECURSIVE ResultRows(_, _, _)
ResultRows(res, headers, rows) ==
    IF rows = << >> THEN res
    ELSE ResultRows(ResultRow(res, headers, Head(rows)), headers, Tail(rows))

\* the body of "for res_file in res_files"
ResultFile(res, file) ==
    LET parsed == parse_tab_delimited_file(file)
    IN IF parsed.headers = << >> THEN res
       ELSE ResultRows(res, parsed.headers, parsed.rows)

RECURSIVE ResultFiles(_, _)
ResultFiles(res, files) ==
    IF files = << >> THEN res
    ELSE ResultFiles(ResultFile(res, Head(files)), Tail(files))

----------------------------------------------------------------------------
(* WashingtonDataParser (src/src/parse_washington_data.py), the parser for  *)
(* the one region that StateDataParser was generalised from.  Its reader    *)
(* opens the file without a try: a file that cannot be read raises, and the *)
(* exception leaves the extractor; "raised" says that this has happened.    *)

\* WashingtonDataParser.parse_tab_delimited_file(filepath)
WashingtonReader(file) ==
    IF ~file.readable
    THEN [raised |-> TRUE, headers |-> << >>, rows |-> << >>]
    ELSE IF Len(file.lines) < 2
    THEN [raised |-> FALSE, headers |-> << >>, rows |-> << >>]
    ELSE [raised  |-> FALSE,
          headers |-> StripFields(file.lines[1]),
          rows    |-> DataRows(SubSeq(file.lines, 3, Len(file.lines)))]

\* WashingtonDataParser.extract_county_name(filename) for a file name that
\* the glob WA_*_inv.txt matched (the match is case-sensitive like the glob)
WashingtonCountyName(county) ==
    IF county = << >> THEN None ELSE ReplaceUnderscore(county)

\* the body of "for row in rows" of WashingtonDataParser.parse_inventory_files
WashingtonInventoryRow(param_dict, row) ==
    IF Len(row) >= 3
    THEN LET code       == strip(row[1])
             short_name == IF Len(row) > 1 THEN strip(row[2]) ELSE << >>
             long_name  == IF Len(row) > 2 THEN strip(row[3]) ELSE << >>
         IN IF code = << >> \/ code = <<"Code">> \/ startswith(code, "---")
            THEN param_dict
            ELSE IF ~HasCode(param_dict, code)
                 THEN Append(param_dict,
                             [code |-> code, short_name |-> short_name,
                              long_name |-> long_name])
                 ELSE param_dict
    ELSE param_dict

RECURSIVE WashingtonInventoryRows(_, _)
WashingtonInventoryRows(param_dict, rows) ==
    IF rows = << >> THEN param_dict
    ELSE WashingtonInventoryRows(WashingtonInventoryRow(param_dict, Head(rows)),
                                 Tail(rows))

\* the body of "for inv_file in self.data_dir.glob('WA_*_inv.txt')"
WashingtonInventoryFile(st, file) ==
    IF st.raised \/ WashingtonCountyName(file.county) = None THEN st
    ELSE LET parsed == WashingtonReader(file)
         IN IF parsed.raised THEN [st EXCEPT !.raised = TRUE]
            ELSE IF parsed.headers = << >> THEN st
            ELSE [st EXCEPT !.dict = WashingtonInventoryRows(@, parsed.rows)]

\* WashingtonDataParser.parse_inventory_files: the dict it has built, and
\* whether an exception left it before self.parameters was assigned
RECURSIVE WashingtonInventoryFiles(_, _)
WashingtonInventoryFiles(st, files) ==
    IF files = << >> THEN st
    ELSE WashingtonInventoryFiles(WashingtonInventoryFile(st, Head(files)),
                                  Tail(files))

\* the station_data dict of one row
WashingtonStationData(headers, row, station_id) ==
    [agency       |-> Resolve(headers, row, <<"Agency">>, 0),
     station_id   |-> station_id,
     station_name |-> Resolve(headers, row, <<"Station Name">>, 2),
     agency_name  |-> Resolve(headers, row, <<"Agency Name">>, 3),
     state        |-> IF /\ InHeader(headers, <<"State Name">>)
                         /\ Len(row) > HeaderIndex(headers, <<"State Name">>)
                      THEN strip(row[HeaderGet(headers, <<"State Name">>, 4) + 1])
                      ELSE <<"Washington">>,
     county       |-> Resolve(headers, row, <<"County Name">>, 5),
     latitude     |-> Resolve(headers, row, <<"Latitude">>, 6),
     longitude    |-> Resolve(headers, row, <<"Longitude">>, 7),
     huc          |-> Resolve(headers, row, <<"HUC">>, 8),
     station_type |-> Resolve(headers, row, <<"Station Type">>, -4),
     description  |-> IF Len(row) > 0 THEN strip(row[Len(row)]) ELSE << >>]

\* the body of "for row in rows" of WashingtonDataParser.parse_station_files
WashingtonStationRow(st, headers, row) ==
    IF st.raised \/ Len(row) < 2 THEN st
    ELSE IF HeaderGet(headers, <<"Station">>, 1) >= Len(row)
    THEN [st EXCEPT !.raised = TRUE]
    ELSE LET station_id == strip(row[HeaderGet(headers, <<"Station">>, 1) + 1])
         IN IF station_id = << >> \/ HasStation(st.dict, station_id) THEN st
            ELSE [st EXCEPT !.dict =
                     Append(@, WashingtonStationData(headers, row, station_id))]

RECURSIVE WashingtonStationRows(_, _, _)
WashingtonStationRows(st, headers, rows) ==
    IF rows = << >> THEN st
    ELSE WashingtonStationRows(WashingtonStationRow(st, headers, Head(rows)),
                               headers, Tail(rows))

\* the body of "for sta_file in self.data_dir.glob('WA_*/WA_*_sta_*.txt')"
WashingtonStationFile(st, file) ==
    IF st.raised THEN st
    ELSE LET parsed == WashingtonReader(file)
         IN IF parsed.raised THEN [st EXCEPT !.raised = TRUE]
            ELSE IF parsed.headers = << >> THEN st
            ELSE WashingtonStationRows(st, parsed.headers, parsed.rows)

RECURSIVE WashingtonStationFiles(_, _)
WashingtonStationFiles(st, files) ==
    IF files = << >> THEN st
    ELSE WashingtonStationFiles(WashingtonStationFile(st, Head(files)),
                                Tail(files))

\* the result_data dict of one row
WashingtonResultData(headers, row) ==
    [agency       |-> Resolve(headers, row, <<"Agency">>, 0),
     station_id   |-> Resolve(headers, row, <<"Station">>, 1),
     param_code   |-> Resolve(headers, row, <<"Param">>, 11),
     start_date   |-> Resolve(headers, row, <<"Start Date">>, 12),
     start_time   |-> Resolve(headers, row, <<"Start Time">>, 13),
     result_value |-> Resolve(headers, row, <<"Result Value">>, 8),
     huc          |-> Resolve(headers, row, <<"HUC">>, 10),
     sample_depth |-> Resolve(headers, row, <<"Sample Depth">>, 16)]

\* Faulty variant: the gate lets rows of nine columns through
WashingtonResultRow_gate_nine(res, headers, row) ==
    IF Len(row) < 9 THEN res
    ELSE Append(res, WashingtonResultData(headers, row))

\* the body of "for row in rows" of WashingtonDataParser.parse_result_files
WashingtonResultRow(res, headers, row) ==
    IF Len(row) < 10 THEN res
    ELSE Append(res, WashingtonResultData(headers, row))

RECURSIVE WashingtonResultRows(_, _, _)
WashingtonResultRows(res, headers, rows) ==
    IF rows = << >> THEN res
    ELSE WashingtonResultRows(WashingtonResultRow(res, headers, Head(rows)),
                              headers, Tail(rows))

\* the body of "for res_file in self.data_dir.glob('WA_*/WA_*_res_*.txt')":
\* st.dict is self.results, which the rows are appended to one by one
WashingtonResultFile(st, file) ==
    IF st.raised THEN st
    ELSE LET parsed == WashingtonReader(file)
         IN IF parsed.raised THEN [st EXCEPT !.raised = TRUE]
            ELSE IF parsed.headers = << >> THEN st
            ELSE [st EXCEPT !.dict =
                     WashingtonResultRows(@, parsed.headers, parsed.rows)]

RECURSIVE WashingtonResultFiles(_, _)
WashingtonResultFiles(st, files) ==
    IF files = << >> THEN st
    ELSE WashingtonResultFiles(WashingtonResultFile(st, Head(files)),
                               Tail(files))

\* a WashingtonDataParser as constructed: no exception, nothing collected
WashingtonFresh == [raised |-> FALSE, dict |-> << >>]

----------------------------------------------------------------------------
(* Artifact Writer *)

CsvNames == {"parameters.csv", "stations.csv", "results.csv"}
\* the entries of the model's file system: the output directory itself (".")
\* and the five files the writers put into it
OutNames == CsvNames \cup {"schema.sql", "import_to_sqlite.sh", "."}

NoFile == [exists |-> FALSE, content |-> << >>]
File(content) == [exists |-> TRUE, content |-> content]

\* csv.DictWriter(f, fieldnames=['code', 'short_name', 'long_name'])
ParameterRow(p) == <<p.code, p.short_name, p.long_name>>
ParameterHeader == <<<<"code">>, <<"short_name">>, <<"long_name">>>>

StationRowOut(s) ==
    <<s.agency, s.station_id, s.station_name, s.agency_name, s.state,
      s.county, s.latitude, s.longitude, s.huc, s.station_type,
      s.description>>
StationHeader ==
    <<<<"agency">>, <<"station_id">>, <<"station_name">>, <<"agency_name">>,
      <<"state">>, <<"county">>, <<"latitude">>, <<"longitude">>, <<"huc">>,
      <<"station_type">>, <<"description">>>>

ResultRowOut(r) ==
    <<r.agency, r.station_id, r.param_code, r.start_date, r.start_time,
      r.result_value, r.huc, r.sample_depth>>
ResultHeader ==
    <<<<"agency">>, <<"station_id">>, <<"param_code">>, <<"start_date">>,
      <<"start_time">>, <<"result_value">>, <<"huc">>, <<"sample_depth">>>>

\* The text of a CSV file is a sequence of atoms like a string: "," is the
\* delimiter, "\"" the quote character and "\r\n" the line terminator of
\* the csv module's default dialect.

\* csv.writer, QUOTE_MINIMAL: a field is quoted when it holds the delimiter,
\* the quote character or a character of the line terminator
NeedsQuote(field) ==
    \E i \in 1..Len(field) : field[i] \in {",", "\"", "\n", "\r", "\r\n"}

\* doublequote=True: every quote character of the field is written twice
RECURSIVE DoubleQuotes(_)
DoubleQuotes(field) ==
    IF field = << >> THEN << >>
    ELSE (IF Head(field) = "\"" THEN <<"\"", "\"">> ELSE <<Head(field)>>)
         \o DoubleQuotes(Tail(field))

\* Faulty variant: a quoted field keeps its quote characters as they are
CsvField_no_doubling(field) ==
    IF NeedsQuote(field) THEN <<"\"">> \o field \o <<"\"">> ELSE field

\* one field as csv.writer writes it
CsvField(field) ==
    IF NeedsQuote(field) THEN <<"\"">> \o DoubleQuotes(field) \o <<"\"">>
    ELSE field

RECURSIVE JoinFields(_)
JoinFields(fields) ==
    IF fields = << >> THEN << >>
    ELSE IF Len(fields) = 1 THEN CsvField(fields[1])
    ELSE CsvField(Head(fields)) \o <<",">> \o JoinFields(Tail(fields))

\* writer.writerow: the fields in the order of fieldnames, then "\r\n"
CsvRecord(fields) == JoinFields(fields) \o <<"\r\n">>

RECURSIVE CsvRecords(_)
CsvRecords(rows) ==
    IF rows = << >> THEN << >>
    ELSE CsvRecord(Head(rows)) \o CsvRecords(Tail(rows))

\* writer.writeheader(); writer.writerows(records)
ParametersCsv(params) ==
    CsvRecord(ParameterHeader)
    \o CsvRecords([i \in 1..Len(params) |-> ParameterRow(params[i])])
StationsCsv(stas) ==
    CsvRecord(StationHeader)
    \o CsvRecords([i \in 1..Len(stas) |-> StationRowOut(stas[i])])
ResultsCsv(ress) ==
    CsvRecord(ResultHeader)
    \o CsvRecords([i \in 1..Len(ress) |-> ResultRowOut(ress[i])])

\* str.lower() on the region names of the model
Lower(name) ==
    CASE name = "Washington" -> "washington"
      [] name = "Oregon"     -> "oregon"
      [] OTHER               -> name

\* Faulty variant: the schema header also carries the number of parameters
\* parsed by this run
SchemaSql_with_counts(state_name, params, stas, ress) ==
    <<"-- SQLite Schema for", state_name, "Water Quality Data",
      "parameters", "stations", "results", "indexes", Len(params)>>

\* the text of schema.sql: the f-string of write_sqlite_schema, whose only
\* hole is self.state_name (the collections are given and not used)
SchemaSql(state_name, params, stas, ress) ==
    <<"-- SQLite Schema for", state_name, "Water Quality Data",
      "parameters", "stations", "results", "indexes">>

\* the text of import_to_sqlite.sh: the f-string of write_import_script, whose
\* holes are self.state_name and db_name = f"{self.state_name.lower()}_water.db"
ImportScript(state_name, params, stas, ress) ==
    <<"# Import", state_name, "water quality data into SQLite",
      "DB_FILE=../", Lower(state_name), "_water.db">>

----------------------------------------------------------------------------
(* Input files of the model *)

SeqsUpTo(S, n) == UNION {[1..k -> S] : k \in 0..n}

\* the separator line that follows the header line
Separator == << <<"---", "-">>, <<"---", "\n">> >>

\* a file of the given kind with this header line and these data lines
MkFile(kind, header, data) ==
    [readable |-> kind # "unreadable",
     lines    |-> IF kind = "short" THEN <<header>>
                  ELSE <<header, Separator>> \o data]

\* the cuts of a sequence of len lines into n consecutive files
Cuts(n, len) ==
    {c \in [0..n -> 0..len] :
        /\ c[0] = 0
        /\ c[n] = len
        /\ \A i \in 1..n : c[i - 1] <= c[i]}

InvHeader == << <<"Code">>, <<"Short Name">>, <<"Long Name", "\n">> >>

\* data lines of inventory files: a parameter and its duplicate with other
\* names, a two-field line, a repeated header, a separator, an empty code, a
\* four-field line with padding, a blank line
InvLineTemp == << <<"00010">>, <<"Temp">>, <<"Water Temperature", "\n">> >>
InvLineTempDup == << <<"00010">>, <<"T">>, <<"Temperature (dup)", "\n">> >>
InvLines ==
    { InvLineTemp,
      InvLineTempDup,
      << <<"00020">>, <<"pH", "\n">> >>,
      << <<"Code">>, <<"Short Name">>, <<"Long Name", "\n">> >>,
      << <<"---", "--">>, <<"---">>, <<"---", "\n">> >>,
      << << >>, <<"x">>, <<"y", "\n">> >>,
      << <<" ", "00020">>, <<"pH", " ">>, <<"pH (lab)">>, <<"extra", "\n">> >>,
      << <<" ", "\n">> >> }

InvKinds == {"ok", "unreadable", "short", "nocounty"}

MkInvFile(kind, data) ==
    [county   |-> IF kind = "nocounty" THEN << >> ELSE <<"Adams", "_", "East">>,
     readable |-> kind # "unreadable",
     lines    |-> IF kind = "short" THEN <<InvHeader>>
                  ELSE <<InvHeader, Separator>> \o data]


\* header lines of station files: the conventional order, a reordered file
\* with Station in the third column, a file without the expected names, a
\* file with a State Name column
StaHeaderConv == << <<"Agency">>, <<"Station">>, <<"Station Name", "\n">> >>
StaHeaderState == << <<"Agency">>, <<"Station">>, <<"State Name", "\n">> >>
StaHeaders ==
    { StaHeaderConv,
      << <<"Station Name">>, <<"Agency">>, <<"Station", "\n">> >>,
      << <<"Org">>, <<"Id", "\n">> >>,
      StaHeaderState }

StaLines ==
    { << <<"EPA">>, <<"S1">>, <<"Lake", "\n">> >>,
      << <<"USGS">>, <<" ", "S1">>, <<"River", "\n">> >>,
      << <<"EPA">>, <<"S2", "\n">> >>,
      << <<"EPA", "\n">> >>,
      << <<"EPA">>, << >>, <<"Pond", "\n">> >> }

\* kind and header of a station file
StaKinds ==
    {<<"ok", h>> : h \in StaHeaders}
    \cup {<<"unreadable", StaHeaderConv>>, <<"short", StaHeaderConv>>}


\* header lines of result files: the conventional 17 columns, and a file
\* that names none of the fields
ResHeaderFull ==
    << <<"Agency">>, <<"Station">>, <<"c2">>, <<"c3">>, <<"c4">>, <<"c5">>,
       <<"c6">>, <<"c7">>, <<"Result Value">>, <<"c9">>, <<"HUC">>,
       <<"Param">>, <<"Start Date">>, <<"Start Time">>, <<"c14">>, <<"c15">>,
       <<"Sample Depth", "\n">> >>
ResHeaderBare == << <<"A">>, <<"B", "\n">> >>
\* a file that names the fields at other positions: Param first, Agency at
\* index 11, Sample Depth at index 9
ResHeaderMoved ==
    << <<"Param">>, <<"Station">>, <<"c2">>, <<"c3">>, <<"c4">>, <<"c5">>,
       <<"c6">>, <<"c7">>, <<"Result Value">>, <<"Sample Depth">>, <<"HUC">>,
       <<"Agency">>, <<"Start Date">>, <<"Start Time">>, <<"c14">>, <<"c15">>,
       <<"c9", "\n">> >>

\* a data line of n columns: column i (0-based) holds the text v<i>
Column(i) ==
    <<"v0", "v1", "v2", "v3", "v4", "v5", "v6", "v7", "v8", "v9", "v10",
      "v11", "v12", "v13", "v14", "v15", "v16">>[i + 1]
ResLine(n) ==
    [i \in 1..n |-> IF i = n THEN <<Column(i - 1), "\n">> ELSE <<Column(i - 1)>>]

ResLines == {ResLine(9), ResLine(10), ResLine(14), ResLine(17)}

ResKinds ==
    {<<"ok", ResHeaderFull>>, <<"ok", ResHeaderBare>>,
     <<"ok", ResHeaderMoved>>,
     <<"unreadable", ResHeaderFull>>, <<"short", ResHeaderFull>>}


\* the files of one category in glob order: the lines of flat, cut at c into
\* n files of the given kinds
InvDir(n, flat, kinds, c) ==
    [i \in 1..n |-> MkInvFile(kinds[i], SubSeq(flat, c[i - 1] + 1, c[i]))]
Dir(n, flat, kinds, c) ==
    [i \in 1..n |->
        MkFile(kinds[i][1], kinds[i][2], SubSeq(flat, c[i - 1] + 1, c[i]))]

\* the data lines a directory of n files may hold
Flats(lines, n) == SeqsUpTo(lines, IF n = 0 THEN 0 ELSE MaxRows)

\* field values that need care in a CSV file: plain text, a lone quote
\* character, a quoted comma, the empty string
CsvValues == { <<"x">>, <<"\"">>, <<"\"", ",", "\"">>, << >> }

\* the end of a line as readlines() returns it
Eol(field) == field \o <<"\n">>

\* the lines of the three categories made of one pair of such values
CsvInvLine(a, b) == <<a, b, Eol(a)>>
CsvStaLine(a, b) == <<b, a, Eol(b)>>
CsvResLine(a, b) ==
    <<a, b, <<"v2">>, <<"v3">>, <<"v4">>, <<"v5">>, <<"v6">>, <<"v7">>, a,
      Eol(b)>>

\* the files of one category whose order of discovery is varied: a few
\* lines of each category, in files that are read, skipped or headed
\* differently
OrdInvLines ==
    { InvLineTemp, InvLineTempDup,
      << <<" ", "00020">>, <<"pH", " ">>, <<"pH (lab)">>, <<"extra", "\n">> >> }
OrdInvKinds == {"ok", "nocounty"}
OrdStaLines ==
    { << <<"EPA">>, <<"S1">>, <<"Lake", "\n">> >>,
      << <<"USGS">>, <<" ", "S1">>, <<"River", "\n">> >>,
      << <<"EPA">>, <<"S2", "\n">> >> }
OrdStaKinds ==
    { <<"ok", StaHeaderConv>>,
      <<"ok", << <<"Station Name">>, <<"Agency">>, <<"Station", "\n">> >> >> }
OrdResLines == {ResLine(9), ResLine(10), ResLine(14)}
OrdResKinds == {<<"ok", ResHeaderFull>>, <<"ok", ResHeaderBare>>}

\* the lines a file may hold at any place, the second included: a header
\* line, a separator, two parameters, a line of blanks, a line of blanks
\* and a tab
InvLinePh == << <<" ", "00020">>, <<"pH">>, <<"pH (lab)", " ", "\n">> >>
ReadLines ==
    { InvHeader, Separator, InvLineTemp, InvLinePh,
      << <<" ", "\n">> >>,
      << <<" ">>, <<"\n">> >> }

RegionNames == {"Washington", "Oregon"}

----------------------------------------------------------------------------
(* The command: main and StateDataParser.run *)

\* exitCode while the process runs; {0} or {1} once it has ended
Running == {}

Event(op, data) == [run |-> runNo, op |-> op, data |-> data]
Message(msg, n) == [run |-> runNo, msg |-> msg, n |-> n]

\* n copies of one message
Repeat(m, n) == [i \in 1..n |-> m]

\* param_file.exists() and station_file.exists() and result_file.exists()
CsvFilesExist(dir) == \A f \in CsvNames : dir[f].exists

\* the three delimited files of a directory
CsvOf(dir) == [f \in CsvNames |-> dir[f]]

\* Faulty variant: the CSV files are written as soon as the stations are parsed
AfterPhase_writes_early(phase) ==
    CASE phase = "inventory"    -> "stations"
      [] phase = "stations"     -> "write_csv"
      [] phase = "write_csv"    -> "results"
      [] phase = "results"      -> "write_schema"
      [] phase = "write_schema" -> "write_script"
      [] phase = "write_script" -> "summary"
      [] phase = "skip_schema"  -> "skip_script"
      [] phase = "skip_script"  -> "return"

\* the statement of run that follows the call made in this phase
AfterPhase(phase) ==
    CASE phase = "inventory"    -> "stations"
      [] phase = "stations"     -> "results"
      [] phase = "results"      -> "write_csv"
      [] phase = "write_csv"    -> "write_schema"
      [] phase = "write_schema" -> "write_script"
      [] phase = "write_script" -> "summary"
      [] phase = "skip_schema"  -> "skip_script"
      [] phase = "skip_script"  -> "return"

\* Faulty variant: the skip path writes the CSV files of the empty collections
RunBranch_skip_rewrites_csv(all_exist) ==
    IF all_exist THEN "write_csv" ELSE "inventory"

\* where run goes after its test of the three CSV files
RunBranch(all_exist) ==
    IF all_exist THEN "skip_schema" ELSE "inventory"

\* Faulty variant: the parser is constructed and run whether or not the
\* directory exists
MainBranch_no_check(dir_exists) == "run"

\* where main goes after its test of actual_data_dir
MainBranch(dir_exists) == IF dir_exists THEN "run" ELSE "exit1"

inputs == <<dataDirExists, stateName, invFiles, staFiles, resFiles>>
collections == <<parameters, stations, results>>
shell == <<shPc, loadNo, db, shLog, shExit>>
export == <<ctPc, ctSource, ctBatchSize, ctTotal, ctNext, ctBatch, ctCopied,
            ctTarget, ctCommitted, ctLog>>

\* export_to_sqlite.py is not running
NoExport ==
    /\ ctPc = "idle"
    /\ ctSource = << >>
    /\ ctBatchSize = 1
    /\ ctTotal = 0
    /\ ctNext = 1
    /\ ctBatch = << >>
    /\ ctCopied = 0
    /\ ctTarget = << >>
    /\ ctCommitted = 0
    /\ ctLog = << >>

\* main, up to the construction of the parser; sys.exit(1) when the input
\* directory is missing
Main ==
    /\ pc = "main"
    /\ LET to == MainBranch(dataDirExists)
       IN IF to = "exit1"
          THEN /\ stdout' = Append(stdout,
                      Message("ERROR: Data directory not found", << >>))
               /\ pc' = "exited"
               /\ exitCode' = {1}
               /\ log' = Append(log, Event("sys.exit", << >>))
          ELSE /\ stdout' = Append(stdout, Message("Initializing parser", << >>))
               /\ pc' = to
               /\ log' = Append(log, Event("StateDataParser", << >>))
               /\ UNCHANGED exitCode
    /\ UNCHANGED <<runNo, inputs, export, shell, collections, outDir>>

\* run, up to its test of the three CSV files
Run ==
    /\ pc = "run"
    /\ pc' = RunBranch(CsvFilesExist(outDir))
    /\ log' = Append(log, Event("run", CsvOf(outDir)))
    /\ stdout' = Append(stdout,
           Message(IF CsvFilesExist(outDir)
                   THEN "Output CSV files already exist. Skipping parsing."
                   ELSE "EPA STORET Data Parser", << >>))
    /\ UNCHANGED <<runNo, inputs, export, shell, collections, outDir, exitCode>>

\* The six methods, as they act on the object and the output directory
\* whoever calls them: run, or a program that uses the class as a library.

\* parse_inventory_files
parse_inventory_files ==
    /\ parameters' = IF invFiles = << >> THEN parameters
                     ELSE InventoryFiles(<< >>, invFiles)
    /\ stdout' = stdout \o
           Repeat(Message("Warning: Could not read", << >>),
                  ReadWarnings(InventoryRead(invFiles)))
    /\ log' = Append(log, Event("parse_inventory_files", << >>))
    /\ UNCHANGED <<runNo, inputs, export, shell, stations, results, outDir>>

\* a row of the station files raises IndexError
StationsRaise ==
    StationFiles([raised |-> FALSE, dict |-> << >>], staFiles, stateName).raised

\* parse_station_files, when no row raises
parse_station_files ==
    /\ ~StationsRaise
    /\ stations' = IF staFiles = << >> THEN stations
                   ELSE StationFiles([raised |-> FALSE, dict |-> << >>],
                                     staFiles, stateName).dict
    /\ stdout' = stdout \o
           Repeat(Message("Warning: Could not read", << >>),
                  StationWarnings(staFiles, stateName))
    /\ log' = Append(log, Event("parse_station_files", << >>))
    /\ UNCHANGED <<runNo, inputs, export, shell, parameters, results, outDir>>

\* parse_station_files, when a row raises IndexError: the exception leaves
\* the method before self.stations is assigned
parse_station_files_raises ==
    /\ StationsRaise
    /\ stdout' = (stdout \o
           Repeat(Message("Warning: Could not read", << >>),
                  StationWarnings(staFiles, stateName)))
           \o <<Message("IndexError: list index out of range", << >>)>>
    /\ log' = log \o <<Event("parse_station_files", << >>),
                       Event("IndexError", << >>)>>
    /\ UNCHANGED <<runNo, inputs, export, shell, collections, outDir>>

\* Faulty variant: the result list is started afresh by every call
parse_result_files_fresh_list ==
    /\ results' = ResultFiles(<< >>, resFiles)
    /\ stdout' = stdout \o
           Repeat(Message("Warning: Could not read", << >>),
                  ReadWarnings(resFiles))
    /\ log' = Append(log, Event("parse_result_files", << >>))
    /\ UNCHANGED <<runNo, inputs, export, shell, parameters, stations, outDir>>

\* parse_result_files
parse_result_files ==
    /\ results' = ResultFiles(results, resFiles)
    /\ stdout' = stdout \o
           Repeat(Message("Warning: Could not read", << >>),
                  ReadWarnings(resFiles))
    /\ log' = Append(log, Event("parse_result_files", << >>))
    /\ UNCHANGED <<runNo, inputs, export, shell, parameters, stations, outDir>>

\* Faulty variant: the collections are emptied once they are written
write_csv_files_consumes_collections ==
    /\ outDir' = [outDir EXCEPT
           !["."]              = File(<< >>),
           !["parameters.csv"] = File(ParametersCsv(parameters)),
           !["stations.csv"]   = File(StationsCsv(stations)),
           !["results.csv"]    = File(ResultsCsv(results))]
    /\ log' = Append(log, Event("write_csv_files", << >>))
    /\ parameters' = << >> /\ stations' = << >> /\ results' = << >>
    /\ UNCHANGED <<runNo, inputs, export, shell, stdout>>

\* write_csv_files(output_dir)
write_csv_files ==
    /\ outDir' = [outDir EXCEPT
           !["."]              = File(<< >>),
           !["parameters.csv"] = File(ParametersCsv(parameters)),
           !["stations.csv"]   = File(StationsCsv(stations)),
           !["results.csv"]    = File(ResultsCsv(results))]
    /\ log' = Append(log, Event("write_csv_files", << >>))
    /\ UNCHANGED <<runNo, inputs, export, shell, collections, stdout>>

\* write_sqlite_schema(output_dir)
write_sqlite_schema ==
    /\ LET text == SchemaSql(stateName, parameters, stations, results)
       IN /\ outDir' = [outDir EXCEPT !["."] = File(<< >>),
                                      !["schema.sql"] = File(text)]
          /\ log' = Append(log, Event("write_sqlite_schema", text))
    /\ UNCHANGED <<runNo, inputs, export, shell, collections, stdout>>

\* write_import_script(output_dir)
write_import_script ==
    /\ LET text == ImportScript(stateName, parameters, stations, results)
       IN /\ outDir' = [outDir EXCEPT !["."] = File(<< >>),
                                      !["import_to_sqlite.sh"] = File(text)]
          /\ log' = Append(log, Event("write_import_script", text))
    /\ UNCHANGED <<runNo, inputs, export, shell, collections, stdout>>

\* self.parse_inventory_files()
ParseInventoryFiles ==
    /\ pc = "inventory"
    /\ parse_inventory_files
    /\ pc' = AfterPhase(pc)
    /\ UNCHANGED exitCode

\* self.parse_station_files(), when no row raises
ParseStationFiles ==
    /\ pc = "stations"
    /\ parse_station_files
    /\ pc' = AfterPhase(pc)
    /\ UNCHANGED exitCode

\* self.parse_station_files(), when a row raises IndexError: the exception
\* leaves parse_station_files, run and main, and the process ends with status 1
ParseStationFilesRaises ==
    /\ pc = "stations"
    /\ parse_station_files_raises
    /\ pc' = "exited"
    /\ exitCode' = {1}

\* self.parse_result_files()
ParseResultFiles ==
    /\ pc = "results"
    /\ parse_result_files
    /\ pc' = AfterPhase(pc)
    /\ UNCHANGED exitCode

\* self.write_csv_files(output_dir)
WriteCsvFiles ==
    /\ pc = "write_csv"
    /\ write_csv_files
    /\ pc' = AfterPhase(pc)
    /\ UNCHANGED exitCode

\* self.write_sqlite_schema(output_dir)
WriteSqliteSchema ==
    /\ pc \in {"write_schema", "skip_schema"}
    /\ write_sqlite_schema
    /\ pc' = AfterPhase(pc)
    /\ UNCHANGED exitCode

\* self.write_import_script(output_dir)
WriteImportScript ==
    /\ pc \in {"write_script", "skip_script"}
    /\ write_import_script
    /\ pc' = AfterPhase(pc)
    /\ UNCHANGED exitCode

\* A program that uses the class as a library constructs a parser and calls
\* its methods in any order, any number of times (pc = "client")
IsCall(e) == e.op # "IndexError"
Calls == Len(SelectSeq(log, IsCall))

ClientCalls ==
    /\ pc = "client"
    /\ Calls < MaxCalls
    /\ UNCHANGED <<pc, exitCode>>

CallParseInventoryFiles == ClientCalls /\ parse_inventory_files
CallParseStationFiles == ClientCalls /\ parse_station_files
\* the program catches the exception and goes on
CallParseStationFilesRaises == ClientCalls /\ parse_station_files_raises
CallParseResultFiles == ClientCalls /\ parse_result_files
CallWriteCsvFiles == ClientCalls /\ write_csv_files
CallWriteSqliteSchema == ClientCalls /\ write_sqlite_schema
CallWriteImportScript == ClientCalls /\ write_import_script

\* the summary that ends run on the parsing path
Summary ==
    /\ pc = "summary"
    /\ stdout' = Append(stdout,
           Message("Summary",
                   <<Len(parameters), Len(stations), Len(results)>>))
    /\ pc' = "return"
    /\ UNCHANGED <<runNo, inputs, export, shell, collections, outDir, log, exitCode>>

\* run returns to main, which ends: exit status 0
Return ==
    /\ pc = "return"
    /\ pc' = "exited"
    /\ exitCode' = {0}
    /\ log' = Append(log, Event("exit", << >>))
    /\ UNCHANGED <<runNo, inputs, export, shell, collections, outDir, stdout>>

\* the command is invoked again, on the same input and output directories: a
\* new process, whose parser starts with empty collections
Invoke ==
    /\ pc = "exited"
    /\ shPc = "idle"
    /\ runNo < MaxRuns
    /\ runNo' = runNo + 1
    /\ pc' = "main"
    /\ exitCode' = Running
    /\ parameters' = << >>
    /\ stations' = << >>
    /\ results' = << >>
    /\ UNCHANGED <<inputs, export, shell, outDir, log, stdout>>

\* a row added by hand to a CSV file of the output directory
Marker == <<"bogus", "\r\n">>

\* the file ends with the row added by hand
EndsWithMarker(content) ==
    Len(content) >= Len(Marker)
    /\ SubSeq(content, Len(content) - Len(Marker) + 1, Len(content)) = Marker

\* the output directory has not been touched since the last invocation ended
\* (the model lets one change by hand happen between two invocations)
Untouched == log # << >> /\ log[Len(log)].op # "by hand"

\* between two invocations somebody adds a row to a CSV file by hand
InjectRow ==
    /\ pc = "exited"
    /\ shPc = "idle"
    /\ runNo < MaxRuns
    /\ Untouched
    /\ \E f \in CsvNames :
          /\ outDir[f].exists
          /\ ~EndsWithMarker(outDir[f].content)
          /\ outDir' = [outDir EXCEPT ![f].content = @ \o Marker]
    /\ log' = Append(log, Event("by hand", << >>))
    /\ UNCHANGED <<pc, runNo, inputs, export, shell, collections, stdout, exitCode>>

\* between two invocations somebody removes a CSV file
RemoveCsv ==
    /\ pc = "exited"
    /\ shPc = "idle"
    /\ runNo < MaxRuns
    /\ Untouched
    /\ \E f \in CsvNames :
          /\ outDir[f].exists
          /\ outDir' = [outDir EXCEPT ![f] = NoFile]
    /\ log' = Append(log, Event("by hand", << >>))
    /\ UNCHANGED <<pc, runNo, inputs, export, shell, collections, stdout, exitCode>>

----------------------------------------------------------------------------
(* The generated load script, import_to_sqlite.sh, run in the output directory *)

\* Reading a CSV file back (csv.reader of the default dialect; .mode csv and
\* .import of the sqlite3 shell read the same format).  CsvRecordAt reads
\* the record that starts at place i of the text: state is the state of the
\* reader's parser, field and record what it has collected of the current
\* field and record; it gives the record and the place after it.
RECURSIVE CsvRecordAt(_, _, _, _, _)
CsvRecordAt(text, i, state, field, record) ==
    IF i > Len(text)
    THEN [record |-> Append(record, field), next |-> i]
    ELSE IF state = "in_quoted"
    THEN IF text[i] = "\""
         THEN CsvRecordAt(text, i + 1, "quote_in_quoted", field, record)
         ELSE CsvRecordAt(text, i + 1, "in_quoted", Append(field, text[i]), record)
    ELSE IF text[i] \in {"\r\n", "\n", "\r"}
    THEN [record |-> IF state = "start_record" THEN << >>
                     ELSE Append(record, field),
          next   |-> i + 1]
    ELSE IF text[i] = ","
    THEN CsvRecordAt(text, i + 1, "start_field", << >>, Append(record, field))
    ELSE IF text[i] = "\""
    THEN IF state \in {"start_record", "start_field"}
         THEN CsvRecordAt(text, i + 1, "in_quoted", << >>, record)
         ELSE IF state = "quote_in_quoted"
         THEN CsvRecordAt(text, i + 1, "in_quoted", Append(field, text[i]), record)
         ELSE CsvRecordAt(text, i + 1, "in_field", Append(field, text[i]), record)
    ELSE CsvRecordAt(text, i + 1, "in_field", Append(field, text[i]), record)

RECURSIVE CsvRecordsFrom(_, _)
CsvRecordsFrom(text, i) ==
    IF i > Len(text) THEN << >>
    ELSE LET r == CsvRecordAt(text, i, "start_record", << >>, << >>)
         IN <<r.record>> \o CsvRecordsFrom(text, r.next)

\* the records of a CSV text, header row included
CsvParse(text) == CsvRecordsFrom(text, 1)

TableNames == {"parameters", "stations", "results"}

\* the CSV file a table is loaded from
CsvFileOf(table) ==
    CASE table = "parameters" -> "parameters.csv"
      [] table = "stations"   -> "stations.csv"
      [] table = "results"    -> "results.csv"

\* DB_FILE does not exist
NoDb == [exists |-> FALSE, schema |-> FALSE,
         tables |-> [t \in TableNames |-> << >>]]

ShEvent(op, data) == [load |-> loadNo, op |-> op, data |-> data]

\* Faulty variant: the script does not look for the database file
ScriptBranch_db_check_ignored(step, found) ==
    CASE step = "check_csv" -> IF found THEN "check_db" ELSE "exit1"
      [] step = "check_db"  -> "schema"

\* Faulty variant: the script does not look for the CSV files
ScriptBranch_no_csv_check(step, found) ==
    CASE step = "check_csv" -> "check_db"
      [] step = "check_db"  -> IF found THEN "exit0" ELSE "schema"

\* the two tests the script starts with: where it goes when the files it
\* looks for are found or not
ScriptBranch(step, found) ==
    CASE step = "check_csv" -> IF found THEN "check_db" ELSE "exit1"
      [] step = "check_db"  -> IF found THEN "exit0" ELSE "schema"

\* Faulty variant: the results are loaded before the stations
ScriptNext_results_first(step) ==
    CASE step = "schema"     -> "parameters"
      [] step = "parameters" -> "results"
      [] step = "results"    -> "stations"
      [] step = "stations"   -> "verify"

\* the part of the script that follows a part
ScriptNext(step) ==
    CASE step = "schema"     -> "parameters"
      [] step = "parameters" -> "stations"
      [] step = "stations"   -> "results"
      [] step = "results"    -> "verify"

\* the script ends: exit, or the end of the file
ShEnd(status) == shPc' = "idle" /\ shExit' = {status}

\* somebody runs the script that a run of the command has written
ShInvoke ==
    /\ pc = "exited"
    /\ shPc = "idle"
    /\ loadNo < MaxLoads
    /\ outDir["import_to_sqlite.sh"].exists
    /\ loadNo' = loadNo + 1
    /\ shPc' = "check_csv"
    /\ shExit' = Running
    /\ shLog' = Append(shLog, [load |-> loadNo + 1, op |-> "start",
                               data |-> [db |-> db, csv |-> CsvFilesExist(outDir)]])
    /\ UNCHANGED <<pc, runNo, inputs, export, collections, outDir, log, stdout,
                   exitCode, db>>

\* if [ ! -f "parameters.csv" ] || ... ; then echo ERROR; exit 1; fi
ShCheckCsv ==
    /\ shPc = "check_csv"
    /\ LET to == ScriptBranch(shPc, CsvFilesExist(outDir))
       IN IF to = "exit1"
          THEN /\ shLog' = Append(shLog, ShEvent("echo ERROR: CSV files not found", << >>))
               /\ ShEnd(1)
          ELSE /\ shPc' = to
               /\ UNCHANGED <<shLog, shExit>>
    /\ UNCHANGED <<pc, runNo, inputs, export, collections, outDir, log, stdout,
                   exitCode, loadNo, db>>

\* Faulty variant: a database that is there but not loaded in full is
\* loaded again
ShCheckDb_reloads_partial_db ==
    /\ shPc = "check_db"
    /\ IF /\ db.exists
          /\ db.schema
          /\ \A t \in TableNames :
                db.tables[t] = Tail(CsvParse(outDir[CsvFileOf(t)].content))
       THEN /\ shLog' = Append(shLog, ShEvent("echo Skipping import", << >>))
            /\ ShEnd(0)
       ELSE /\ shPc' = "schema"
            /\ UNCHANGED <<shLog, shExit>>
    /\ UNCHANGED <<pc, runNo, inputs, export, collections, outDir, log, stdout,
                   exitCode, loadNo, db>>

\* if [ -f "$DB_FILE" ]; then echo already exists; exit 0; fi
ShCheckDb ==
    /\ shPc = "check_db"
    /\ LET to == ScriptBranch(shPc, db.exists)
       IN IF to = "exit0"
          THEN /\ shLog' = Append(shLog, ShEvent("echo Skipping import", << >>))
               /\ ShEnd(0)
          ELSE /\ shPc' = to
               /\ UNCHANGED <<shLog, shExit>>
    /\ UNCHANGED <<pc, runNo, inputs, export, collections, outDir, log, stdout,
                   exitCode, loadNo, db>>

\* the outcomes of a call of sqlite3; under set -e a failed call ends the
\* script with a non-zero status
SqliteOutcomes == {"ok", "failed", "failed late"}

\* sqlite3 "$DB_FILE" < schema.sql: the tables are dropped and created
\* again; a call that fails may have created the file already
ShSchema ==
    /\ shPc = "schema"
    /\ \E outcome \in SqliteOutcomes :
          CASE outcome = "ok" ->
                 /\ db' = [NoDb EXCEPT !.exists = TRUE, !.schema = TRUE]
                 /\ shLog' = shLog \o <<ShEvent("sqlite3 schema.sql", << >>),
                                         ShEvent("echo Schema created", << >>)>>
                 /\ shPc' = ScriptNext(shPc)
                 /\ UNCHANGED shExit
            [] outcome = "failed" ->
                 /\ UNCHANGED <<db, shLog>>
                 /\ ShEnd(1)
            [] outcome = "failed late" ->
                 /\ db' = [db EXCEPT !.exists = TRUE]
                 /\ UNCHANGED shLog
                 /\ ShEnd(1)
    /\ UNCHANGED <<pc, runNo, inputs, export, collections, outDir, log, stdout,
                   exitCode, loadNo>>

\* .import --skip 1 <table>.csv <table>, then SELECT COUNT(*) and the echo of
\* the count, for the table the script has come to; the import may fail,
\* and so may the count after the rows are in
ShImport ==
    /\ shPc \in TableNames
    /\ LET rows == Tail(CsvParse(outDir[CsvFileOf(shPc)].content))
           loaded == [db EXCEPT !.tables[shPc] = @ \o rows]
       IN \E outcome \in SqliteOutcomes :
             CASE outcome = "ok" ->
                    /\ db' = loaded
                    /\ shLog' = shLog \o
                          <<ShEvent("sqlite3 .import", <<shPc>>),
                            ShEvent("echo Imported",
                                    <<Len(loaded.tables[shPc]), shPc>>)>>
                    /\ shPc' = ScriptNext(shPc)
                    /\ UNCHANGED shExit
               [] outcome = "failed" ->
                    /\ UNCHANGED <<db, shLog>>
                    /\ ShEnd(1)
               [] outcome = "failed late" ->
                    /\ db' = loaded
                    /\ shLog' = Append(shLog, ShEvent("sqlite3 .import", <<shPc>>))
                    /\ ShEnd(1)
    /\ UNCHANGED <<pc, runNo, inputs, export, collections, outDir, log, stdout,
                   exitCode, loadNo>>

\* the rest of the script: the indexes are counted (|| echo "0"), the size
\* is shown, and the script ends
ShVerify ==
    /\ shPc = "verify"
    /\ shLog' = Append(shLog, ShEvent("echo Import complete", << >>))
    /\ ShEnd(0)
    /\ UNCHANGED <<pc, runNo, inputs, export, collections, outDir, log, stdout,
                   exitCode, loadNo, db>>

----------------------------------------------------------------------------
(* copy_table of src/src/export_to_sqlite.py: one table copied from         *)
(* PostgreSQL to SQLite.  A value of a row is a record of its Python type   *)
(* and its text; a row is a tuple of values.                                *)

Value(type, text) == [type |-> type, text |-> text]

\* hasattr(val, '__float__'): the numeric types
HasFloat == {"Decimal", "int", "float"}

\* the conversion of one value: float(val) for a value that is not None and
\* has __float__, the value itself otherwise
ConvertValue(val) ==
    IF val.type # "NoneType" /\ val.type \in HasFloat
    THEN Value("float", val.text)
    ELSE val

\* tuple(converted_row)
ConvertRow(row) == [i \in 1..Len(row) |-> ConvertValue(row[i])]

\* the rows a table of the model may hold
CopyRowValues ==
    { <<Value("str", "a"), Value("NoneType", "None")>>,
      <<Value("str", "b"), Value("Decimal", "1.5")>>,
      <<Value("str", "c"), Value("int", "2")>> }

\* copy_table is called: the rows are counted, the SELECT is executed, and
\* copied and batch are initialised
CopyTableBegin ==
    /\ ctPc = "call"
    /\ ctTotal' = Len(ctSource)
    /\ ctNext' = 1
    /\ ctCopied' = 0
    /\ ctBatch' = << >>
    /\ ctPc' = "loop"
    /\ UNCHANGED <<ctSource, ctBatchSize, ctTarget, ctCommitted, ctLog>>
    /\ UNCHANGED <<pc, runNo, inputs, collections, outDir, log, stdout,
                   exitCode, shell>>

\* len(batch) >= batch_size
BatchFull(batch, batch_size) == Len(batch) >= batch_size

\* one turn of "for row in pg_cursor": the row is converted and put into
\* the batch; a batch that has reached batch_size is inserted and
\* committed, counted and emptied
CopyTableRow ==
    /\ ctPc = "loop"
    /\ ctNext <= Len(ctSource)
    /\ ctNext' = ctNext + 1
    /\ LET batch == Append(ctBatch, ConvertRow(ctSource[ctNext]))
       IN IF BatchFull(batch, ctBatchSize)
          THEN /\ ctTarget' = ctTarget \o batch
               /\ ctCommitted' = Len(ctTarget')
               /\ ctCopied' = ctCopied + Len(batch)
               /\ ctLog' = Append(ctLog, Len(batch))
               /\ ctBatch' = << >>
          ELSE /\ ctBatch' = batch
               /\ UNCHANGED <<ctTarget, ctCommitted, ctCopied, ctLog>>
    /\ UNCHANGED <<ctPc, ctSource, ctBatchSize, ctTotal>>
    /\ UNCHANGED <<pc, runNo, inputs, collections, outDir, log, stdout,
                   exitCode, shell>>

\* Faulty variant: the rows left in the batch when the cursor is exhausted
\* are not inserted
CopyTableEnd_without_flush ==
    /\ ctPc = "loop"
    /\ ctNext > Len(ctSource)
    /\ ctPc' = "done"
    /\ UNCHANGED <<ctTarget, ctCommitted, ctCopied, ctLog>>
    /\ UNCHANGED <<ctSource, ctBatchSize, ctTotal, ctNext, ctBatch>>
    /\ UNCHANGED <<pc, runNo, inputs, collections, outDir, log, stdout,
                   exitCode, shell>>

\* the cursor is exhausted: "if batch:" inserts and commits the rows that
\* remain (batch itself is left as it is), and copy_table returns
CopyTableEnd ==
    /\ ctPc = "loop"
    /\ ctNext > Len(ctSource)
    /\ IF ctBatch # << >>
       THEN /\ ctTarget' = ctTarget \o ctBatch
            /\ ctCommitted' = Len(ctTarget')
            /\ ctCopied' = ctCopied + Len(ctBatch)
            /\ ctLog' = Append(ctLog, Len(ctBatch))
       ELSE UNCHANGED <<ctTarget, ctCommitted, ctCopied, ctLog>>
    /\ ctPc' = "done"
    /\ UNCHANGED <<ctSource, ctBatchSize, ctTotal, ctNext, ctBatch>>
    /\ UNCHANGED <<pc, runNo, inputs, collections, outDir, log, stdout,
                   exitCode, shell>>

\* the state in which the command is first invoked
Start ==
    /\ pc = "main"
    /\ runNo = 1
    /\ parameters = << >>
    /\ stations = << >>
    /\ results = << >>
    /\ outDir = [f \in OutNames |-> NoFile]
    /\ log = << >>
    /\ stdout = << >>
    /\ exitCode = Running
    /\ shPc = "idle"
    /\ loadNo = 0
    /\ db = NoDb
    /\ shLog = << >>
    /\ shExit = Running
    /\ NoExport

----------------------------------------------------------------------------
(* Specifications *)

\* The command run up to MaxRuns times on a few input directories
RunInvDirs == { << >>, <<MkInvFile("ok", <<InvLineTemp, InvLineTempDup>>)>> }
RunStaDirs ==
    { << >>,
      <<MkFile("ok", StaHeaderConv,
               << << <<"EPA">>, <<"S1">>, <<"Lake", "\n">> >> >>)>>,
      <<MkFile("ok", << <<"Station Name">>, <<"Agency">>, <<"Station", "\n">> >>,
               << << <<"EPA">>, <<"S2", "\n">> >> >>)>>,
      <<MkFile("unreadable", StaHeaderConv,
               << << <<"EPA">>, <<"S1">>, <<"Lake", "\n">> >> >>)>> }
RunResDirs ==
    { << >>, <<MkFile("ok", ResHeaderFull, <<ResLine(9), ResLine(14)>>)>> }

Init ==
    /\ Start
    /\ stateName \in RegionNames
    /\ dataDirExists \in BOOLEAN
    /\ invFiles \in (IF dataDirExists THEN RunInvDirs ELSE {<< >>})
    /\ staFiles \in (IF dataDirExists THEN RunStaDirs ELSE {<< >>})
    /\ resFiles \in (IF dataDirExists THEN RunResDirs ELSE {<< >>})

Next ==
    \/ Main
    \/ Run
    \/ ParseInventoryFiles
    \/ ParseStationFiles
    \/ ParseStationFilesRaises
    \/ ParseResultFiles
    \/ WriteCsvFiles
    \/ WriteSqliteSchema
    \/ WriteImportScript
    \/ Summary
    \/ Return
    \/ Invoke
    \/ InjectRow
    \/ RemoveCsv

Spec == Init /\ [][Next]_vars

\* One invocation up to the end of write_csv_files, on input files whose
\* fields hold the delimiter and the quote character of the CSV dialect; row
\* i of each file is made of the i-th pair of values
InitCsv ==
    /\ Start
    /\ stateName = "Washington"
    /\ dataDirExists = TRUE
    /\ \E pairs \in SeqsUpTo(CsvValues \X CsvValues, MaxRows) :
          /\ invFiles = <<MkInvFile("ok",
                 [i \in 1..Len(pairs) |-> CsvInvLine(pairs[i][1], pairs[i][2])])>>
          /\ staFiles = <<MkFile("ok", StaHeaderConv,
                 [i \in 1..Len(pairs) |-> CsvStaLine(pairs[i][1], pairs[i][2])])>>
          /\ resFiles = <<MkFile("ok", ResHeaderFull,
                 [i \in 1..Len(pairs) |-> CsvResLine(pairs[i][1], pairs[i][2])])>>

NextCsv ==
    \/ Main
    \/ Run
    \/ ParseInventoryFiles
    \/ ParseStationFiles
    \/ ParseResultFiles
    \/ WriteCsvFiles

SpecCsv == InitCsv /\ [][NextCsv]_vars

\* One invocation up to the end of extraction, on directories that hold
\* several files of one category
InitOrd ==
    /\ Start
    /\ stateName = "Washington"
    /\ dataDirExists = TRUE
    /\ \E cat \in {"inv", "sta", "res"} : \E n \in 0..MaxFiles :
          /\ IF cat = "inv"
             THEN \E flat \in Flats(OrdInvLines, n) :
                     \E kinds \in [1..n -> OrdInvKinds] :
                        \E c \in Cuts(n, Len(flat)) :
                           invFiles = InvDir(n, flat, kinds, c)
             ELSE invFiles = << >>
          /\ IF cat = "sta"
             THEN \E flat \in Flats(OrdStaLines, n) :
                     \E kinds \in [1..n -> OrdStaKinds] :
                        \E c \in Cuts(n, Len(flat)) :
                           staFiles = Dir(n, flat, kinds, c)
             ELSE staFiles = << >>
          /\ IF cat = "res"
             THEN \E flat \in Flats(OrdResLines, n) :
                     \E kinds \in [1..n -> OrdResKinds] :
                        \E c \in Cuts(n, Len(flat)) :
                           resFiles = Dir(n, flat, kinds, c)
             ELSE resFiles = << >>

NextOrd ==
    \/ Main
    \/ Run
    \/ ParseInventoryFiles
    \/ ParseStationFiles
    \/ ParseStationFilesRaises
    \/ ParseResultFiles

SpecOrd == InitOrd /\ [][NextOrd]_vars

\* the steps of the process: once started, the interpreter runs main to its
\* end (every loop of the code is over a finite list); what happens between
\* two invocations is up to the user
ProgramStep ==
    \/ Main
    \/ Run
    \/ ParseInventoryFiles
    \/ ParseStationFiles
    \/ ParseStationFilesRaises
    \/ ParseResultFiles
    \/ WriteCsvFiles
    \/ WriteSqliteSchema
    \/ WriteImportScript
    \/ Summary
    \/ Return

\* One invocation of the command, under the assumption that a started
\* process is run to its end
SpecLive == Init /\ [][ProgramStep]_vars /\ WF_vars(ProgramStep)

\* The command run once, then the load script it has written run up to
\* MaxLoads times, a CSV file possibly removed in between
ScriptStep ==
    \/ ShInvoke
    \/ ShCheckCsv
    \/ ShCheckDb
    \/ ShSchema
    \/ ShImport
    \/ ShVerify

NextLoad == ProgramStep \/ RemoveCsv \/ ScriptStep

SpecLoad == Init /\ [][NextLoad]_vars

\* One invocation up to the end of inventory extraction, on every input
\* directory of the bounds
InitInv ==
    /\ Start
    /\ stateName = "Washington"
    /\ dataDirExists = TRUE
    /\ \E n \in 0..MaxFiles : \E flat \in Flats(InvLines, n) :
          \E kinds \in [1..n -> InvKinds] : \E c \in Cuts(n, Len(flat)) :
             invFiles = InvDir(n, flat, kinds, c)
    /\ staFiles = << >>
    /\ resFiles = << >>

NextInv == Main \/ Run \/ ParseInventoryFiles

SpecInv == InitInv /\ [][NextInv]_vars

\* One invocation up to the end of inventory extraction, on one readable
\* file of any lines
InitRead ==
    /\ Start
    /\ stateName = "Washington"
    /\ dataDirExists = TRUE
    /\ \E lines \in SeqsUpTo(ReadLines, MaxRows + 2) :
          invFiles = <<[county   |-> <<"Adams">>,
                        readable |-> TRUE,
                        lines    |-> lines]>>
    /\ staFiles = << >>
    /\ resFiles = << >>

SpecRead == InitRead /\ [][NextInv]_vars

\* One invocation up to the end of station extraction
InitSta ==
    /\ Start
    /\ stateName = "Oregon"
    /\ dataDirExists = TRUE
    /\ invFiles = << >>
    /\ \E n \in 0..MaxFiles : \E flat \in Flats(StaLines, n) :
          \E kinds \in [1..n -> StaKinds] : \E c \in Cuts(n, Len(flat)) :
             staFiles = Dir(n, flat, kinds, c)
    /\ resFiles = << >>

NextSta ==
    \/ Main
    \/ Run
    \/ ParseInventoryFiles
    \/ ParseStationFiles
    \/ ParseStationFilesRaises

SpecSta == InitSta /\ [][NextSta]_vars

\* One invocation up to the end of result extraction
InitRes ==
    /\ Start
    /\ stateName = "Washington"
    /\ dataDirExists = TRUE
    /\ invFiles = << >>
    /\ staFiles = << >>
    /\ \E n \in 0..MaxFiles : \E flat \in Flats(ResLines, n) :
          \E kinds \in [1..n -> ResKinds] : \E c \in Cuts(n, Len(flat)) :
             resFiles = Dir(n, flat, kinds, c)

NextRes ==
    \/ Main
    \/ Run
    \/ ParseInventoryFiles
    \/ ParseStationFiles
    \/ ParseResultFiles

SpecRes == InitRes /\ [][NextRes]_vars

\* One invocation up to the end of result extraction, on result files whose
\* rows name a station and a parameter that the station and inventory
\* files hold, hold under other ids, or do not hold at all
RefInvDirs ==
    { << >>,
      <<MkInvFile("ok", << << <<"v11">>, <<"Param">>, <<"Known", "\n">> >> >>)>>,
      <<MkInvFile("ok", <<InvLineTemp>>)>> }
RefStaDirs ==
    { << >>,
      <<MkFile("ok", StaHeaderConv,
               << << <<"v0">>, <<"v1">>, <<"Known", "\n">> >> >>)>>,
      <<MkFile("ok", StaHeaderConv,
               << << <<"EPA">>, <<"S1">>, <<"Lake", "\n">> >> >>)>> }
RefResLines == {ResLine(10), ResLine(14)}
RefResKinds == {<<"ok", ResHeaderFull>>, <<"ok", ResHeaderBare>>}

InitRef ==
    /\ Start
    /\ stateName = "Washington"
    /\ dataDirExists = TRUE
    /\ invFiles \in RefInvDirs
    /\ staFiles \in RefStaDirs
    /\ \E n \in 0..MaxFiles : \E flat \in Flats(RefResLines, n) :
          \E kinds \in [1..n -> RefResKinds] : \E c \in Cuts(n, Len(flat)) :
             resFiles = Dir(n, flat, kinds, c)

SpecRef == InitRef /\ [][NextRes]_vars

\* A parser object in the hands of a program that calls its methods in any
\* order, up to MaxCalls times
InitApi ==
    /\ pc = "client"
    /\ runNo = 1
    /\ parameters = << >>
    /\ stations = << >>
    /\ results = << >>
    /\ outDir = [f \in OutNames |-> NoFile]
    /\ log = << >>
    /\ stdout = <<[run |-> 1, msg |-> "Initializing parser", n |-> << >>]>>
    /\ exitCode = Running
    /\ shPc = "idle"
    /\ loadNo = 0
    /\ db = NoDb
    /\ shLog = << >>
    /\ shExit = Running
    /\ NoExport
    /\ stateName = "Washington"
    /\ dataDirExists = TRUE
    /\ invFiles \in RunInvDirs
    /\ staFiles \in RunStaDirs
    /\ resFiles \in RunResDirs

NextApi ==
    \/ CallParseInventoryFiles
    \/ CallParseStationFiles
    \/ CallParseStationFilesRaises
    \/ CallParseResultFiles
    \/ CallWriteCsvFiles
    \/ CallWriteSqliteSchema
    \/ CallWriteImportScript

SpecApi == InitApi /\ [][NextApi]_vars

\* One invocation for the region WA / Washington up to the end of
\* extraction, on directories that both parsers can be given: one category
\* at a time holds files, of every header and of every kind
EqInvKinds == {"ok", "nocounty", "short", "unreadable"}
EqStaKinds == {<<"ok", h>> : h \in StaHeaders} \cup {<<"short", StaHeaderConv>>}
EqResKinds == ResKinds

InitEq ==
    /\ Start
    /\ stateName = "Washington"
    /\ dataDirExists = TRUE
    /\ \E cat \in {"inv", "sta", "res"} : \E n \in 0..MaxFiles :
          /\ IF cat = "inv"
             THEN \E flat \in Flats(OrdInvLines, n) :
                     \E kinds \in [1..n -> EqInvKinds] :
                        \E c \in Cuts(n, Len(flat)) :
                           invFiles = InvDir(n, flat, kinds, c)
             ELSE invFiles = << >>
          /\ IF cat = "sta"
             THEN \E flat \in Flats(OrdStaLines, n) :
                     \E kinds \in [1..n -> EqStaKinds] :
                        \E c \in Cuts(n, Len(flat)) :
                           staFiles = Dir(n, flat, kinds, c)
             ELSE staFiles = << >>
          /\ IF cat = "res"
             THEN \E flat \in Flats(OrdResLines, n) :
                     \E kinds \in [1..n -> EqResKinds] :
                        \E c \in Cuts(n, Len(flat)) :
                           resFiles = Dir(n, flat, kinds, c)
             ELSE resFiles = << >>

SpecEq == InitEq /\ [][NextOrd]_vars

\* One call of copy_table, on a table of up to MaxCopyRows rows and with a
\* batch_size of 1 to MaxBatchSize; the table it copies into is empty
InitCopy ==
    /\ pc = "main"
    /\ runNo = 1
    /\ parameters = << >>
    /\ stations = << >>
    /\ results = << >>
    /\ outDir = [f \in OutNames |-> NoFile]
    /\ log = << >>
    /\ stdout = << >>
    /\ exitCode = Running
    /\ shPc = "idle"
    /\ loadNo = 0
    /\ db = NoDb
    /\ shLog = << >>
    /\ shExit = Running
    /\ stateName = "Washington"
    /\ dataDirExists = FALSE
    /\ invFiles = << >>
    /\ staFiles = << >>
    /\ resFiles = << >>
    /\ ctPc = "call"
    /\ ctSource \in SeqsUpTo(CopyRowValues, MaxCopyRows)
    /\ ctBatchSize \in 1..MaxBatchSize
    /\ ctTotal = 0
    /\ ctNext = 1
    /\ ctBatch = << >>
    /\ ctCopied = 0
    /\ ctTarget = << >>
    /\ ctCommitted = 0
    /\ ctLog = << >>

NextCopy ==
    \/ CopyTableBegin
    \/ CopyTableRow
    \/ CopyTableEnd

SpecCopy == InitCopy /\ [][NextCopy]_vars

----------------------------------------------------------------------------
(* What the claims speak of *)

\* the call of this method by the current invocation has ended
Called(op) == \E i \in 1..Len(log) : log[i].op = op /\ log[i].run = runNo

\* the data rows of a list of files, file by file, as the Record Reader
\* yields them, each with the header of its file
RECURSIVE RowsOf(_)
RowsOf(files) ==
    IF files = << >> THEN << >>
    ELSE LET parsed == parse_tab_delimited_file(Head(files))
         IN [i \in 1..Len(parsed.rows) |->
                [headers |-> parsed.headers, row |-> parsed.rows[i]]]
            \o RowsOf(Tail(files))

\* field k (from 1) of a row, '' when the row is too short
FieldOr(row, k) == IF Len(row) >= k THEN row[k] ELSE << >>

\* a code that is non-empty and not header-like
ValidCode(code) ==
    code # << >> /\ code # <<"Code">> /\ ~startswith(code, "---")

\* the parameter collection holds exactly one entry per distinct code of
\* rows, with the names of the first row of that code
FirstWriterWins(params, rows) ==
    /\ {params[i].code : i \in 1..Len(params)}
           = {rows[j].row[1] : j \in 1..Len(rows)}
    /\ \A i, j \in 1..Len(params) : params[i].code = params[j].code => i = j
    /\ \A i \in 1..Len(params) :
          \E j \in 1..Len(rows) :
             /\ rows[j].row[1] = params[i].code
             /\ \A k \in 1..(j - 1) : rows[k].row[1] # params[i].code
             /\ params[i].short_name = FieldOr(rows[j].row, 2)
             /\ params[i].long_name = FieldOr(rows[j].row, 3)

HasValidCode(r) == ValidCode(r.row[1])
HasValidCodeAndThreeFields(r) == ValidCode(r.row[1]) /\ Len(r.row) >= 3
HasCounty(file) == file.county # << >>

\* C1 as stated: after inventory extraction the parameter collection holds
\* exactly one entry per distinct code carried by a row whose code is
\* non-empty and not header-like, with the names of the first such row in
\* file order then row order.
C1_AsStated ==
    Called("parse_inventory_files") =>
        FirstWriterWins(parameters, SelectSeq(RowsOf(invFiles), HasValidCode))

\* C1 amended: after inventory extraction the parameter collection holds
\* exactly one entry per distinct code carried by a row of at least three
\* fields whose code is non-empty and not header-like, in a file whose name
\* yields a county name, with the short_name and long_name of the first such
\* row in file order then row order; later rows of the same code change
\* nothing.
C1_FirstValidRowWins ==
    Called("parse_inventory_files") =>
        FirstWriterWins(parameters,
                        SelectSeq(RowsOf(SelectSeq(invFiles, HasCounty)),
                               HasValidCodeAndThreeFields))

\* a code came twice with different names and one entry was kept
C1_Witness ==
    /\ Called("parse_inventory_files")
    /\ Len(parameters) = 1
    /\ LET rows == SelectSeq(RowsOf(SelectSeq(invFiles, HasCounty)),
                          HasValidCodeAndThreeFields)
       IN /\ Len(rows) = 2
          /\ rows[1].row[2] # rows[2].row[2]

\* the station id a row carries: the Station column of the header when the
\* header names one, the second field otherwise; '' when the row has no
\* such field
CarriedStationId(r) ==
    IF InHeader(r.headers, <<"Station">>)
    THEN FieldOr(r.row, HeaderIndex(r.headers, <<"Station">>) + 1)
    ELSE FieldOr(r.row, 2)

CarriesStation(r) == Len(r.row) >= 2 /\ CarriedStationId(r) # << >>

\* C2 as stated: after station extraction the station collection holds
\* exactly one record per distinct non-empty station id found in a row of at
\* least two fields, with the attributes of the first row that carried the
\* id; shorter rows and rows with an empty id contribute nothing.
C2_AsStated ==
    Called("parse_station_files") =>
        LET rows == SelectSeq(RowsOf(staFiles), CarriesStation)
        IN /\ {stations[i].station_id : i \in 1..Len(stations)}
                  = {CarriedStationId(rows[j]) : j \in 1..Len(rows)}
           /\ \A i, j \in 1..Len(stations) :
                 stations[i].station_id = stations[j].station_id => i = j
           /\ \A i \in 1..Len(stations) :
                 \E j \in 1..Len(rows) :
                    /\ CarriedStationId(rows[j]) = stations[i].station_id
                    /\ \A k \in 1..(j - 1) :
                          CarriedStationId(rows[k]) # stations[i].station_id
                    /\ stations[i] = StationData(rows[j].headers, rows[j].row,
                                                 stations[i].station_id,
                                                 stateName)

PassesGate(r) == Len(r.row) >= MinResultColumns

\* the data rows of the result files, counted on the lines of the files: the
\* non-blank lines, from the third on, of the files that can be read
ResultDataLines ==
    UNION { { <<f, k>> : k \in {kk \in 3..Len(resFiles[f].lines) :
                                   NonBlank(resFiles[f].lines[kk])} } :
            f \in {ff \in 1..Len(resFiles) : resFiles[ff].readable} }

\* C3: after result extraction the size of the result collection equals the
\* number of data rows, over all result files, that have at least 10
\* columns; shorter rows add nothing and no row passing the gate is dropped
\* or merged with an equal one.
C3_ResultCount ==
    Called("parse_result_files") =>
        Len(results) =
            Cardinality({p \in ResultDataLines :
                            Len(resFiles[p[1]].lines[p[2]]) >= 10})

\* two equal rows of ten columns or more were both kept
C3_Witness ==
    /\ Called("parse_result_files")
    /\ Len(results) = 2
    /\ results[1] = results[2]

\* the named fields of a result record: key, column name, positional index
\* (the second argument of header_map.get)
ResultFields ==
    { <<"agency", <<"Agency">>, 0>>,
      <<"station_id", <<"Station">>, 1>>,
      <<"param_code", <<"Param">>, 11>>,
      <<"start_date", <<"Start Date">>, 12>>,
      <<"start_time", <<"Start Time">>, 13>>,
      <<"result_value", <<"Result Value">>, 8>>,
      <<"huc", <<"HUC">>, 10>>,
      <<"sample_depth", <<"Sample Depth">>, 16>> }

\* C4 as stated: when the header of the file does not contain the name of
\* a field but the row is long enough to contain the field's positional
\* index, the field of the record is the trimmed row value at that index.
C4_AsStated ==
    Called("parse_result_files") =>
        LET rows == SelectSeq(RowsOf(resFiles), PassesGate)
        IN /\ Len(results) = Len(rows)
           /\ \A k \in 1..Len(rows) : \A fld \in ResultFields :
                 (/\ ~InHeader(rows[k].headers, fld[2])
                  /\ Len(rows[k].row) > fld[3])
                 => results[k][fld[1]] = strip(rows[k].row[fld[3] + 1])

\* C5 as stated: field resolution never raises, whatever the length of the
\* row: station extraction, once called, ends without an IndexError.
C5_AsStated ==
    \A i \in 1..Len(log) : log[i].op # "IndexError"

Extractors ==
    {"parse_inventory_files", "parse_station_files", "parse_result_files"}
Writers == {"write_csv_files", "write_sqlite_schema", "write_import_script"}

\* log[i] is the start of a run that found all three CSV files
SkippingRun(i) ==
    log[i].op = "run" /\ \A f \in CsvNames : log[i].data[f].exists

\* log[i] is the start of a run that found a CSV file missing
ParsingRun(i) ==
    log[i].op = "run" /\ \E f \in CsvNames : ~log[i].data[f].exists

\* the current invocation has made this call
Wrote(op, run) == \E j \in 1..Len(log) : log[j].op = op /\ log[j].run = run

\* C6: a run that finds parameters.csv, stations.csv and results.csv in the
\* output directory calls none of the three extractors and does not write
\* the CSV files, whose contents (a row added by hand included) stay as
\* they were found, and it writes schema.sql and the load script again.
C6_SkipKeepsCsv ==
    \A i \in 1..Len(log) :
        SkippingRun(i) =>
            /\ \A j \in 1..Len(log) :
                  log[j].run = log[i].run =>
                      log[j].op \notin Extractors \cup {"write_csv_files"}
            /\ (\A j \in i..Len(log) : log[j].run = log[i].run /\ log[j].op # "by hand")
                  => CsvOf(outDir) = log[i].data
            /\ log[Len(log)] = [run |-> log[i].run, op |-> "exit", data |-> << >>]
                  => /\ Wrote("write_sqlite_schema", log[i].run)
                     /\ Wrote("write_import_script", log[i].run)
                     /\ outDir["schema.sql"].exists
                     /\ outDir["import_to_sqlite.sh"].exists

\* a run has skipped parsing and ended, and the row added by hand to
\* results.csv is still there
C6_Witness ==
    /\ pc = "exited"
    /\ \E i \in 1..Len(log) :
          /\ SkippingRun(i)
          /\ log[i].run = runNo
          /\ log[Len(log)].op = "exit"
          /\ Wrote("write_import_script", runNo)
    /\ EndsWithMarker(outDir["results.csv"].content)

\* C7: two runs with the same region name write the same schema.sql and the
\* same load script, whether they parsed or skipped.
C7_ArtifactsRepeat ==
    \A i, j \in 1..Len(log) :
        (log[i].op \in {"write_sqlite_schema", "write_import_script"}
            /\ log[j].op = log[i].op)
        => log[i].data = log[j].data

\* a run that parsed a parameter and a later run that skipped have both
\* written the load script
C7_Witness ==
    \E i, j \in 1..Len(log) :
        /\ ParsingRun(i) /\ SkippingRun(j)
        /\ invFiles # << >>
        /\ Wrote("write_import_script", log[i].run)
        /\ Wrote("write_import_script", log[j].run)

\* C8: in a run that does not skip, inventory, station and result extraction
\* and the writing happen in this order: nothing is written before all three
\* extractors have ended, and no extractor is called after a write.
C8_PhaseOrder ==
    \A i \in 1..Len(log) :
        ParsingRun(i) =>
            \A a, b \in 1..Len(log) :
                (log[a].run = log[i].run /\ log[b].run = log[i].run) =>
                    /\ (log[a].op \in Writers /\ log[b].op \in Extractors) => b < a
                    /\ log[a].op \in Writers =>
                          \A x \in Extractors : Wrote(x, log[i].run)
                    /\ (log[a].op = "parse_inventory_files"
                          /\ log[b].op \in {"parse_station_files", "parse_result_files"})
                       => a < b
                    /\ (log[a].op = "parse_station_files"
                          /\ log[b].op = "parse_result_files") => a < b

\* a run that did not skip has gone through all phases
C8_Witness ==
    \E i \in 1..Len(log) :
        /\ ParsingRun(i)
        /\ \A x \in Extractors \cup Writers : Wrote(x, log[i].run)
        /\ Len(results) > 0

\* C9: when the input directory does not exist, the command reports the
\* error and exits with status 1 before it constructs the parser: no
\* extractor runs and nothing is created in or written to the output
\* directory.
C9_MissingInputDir ==
    ~dataDirExists =>
        /\ \A i \in 1..Len(log) : log[i].op = "sys.exit"
        /\ \A f \in OutNames : ~outDir[f].exists
        /\ parameters = << >> /\ stations = << >> /\ results = << >>
        /\ pc = "exited" =>
              /\ exitCode = {1}
              /\ stdout # << >>
              /\ stdout[Len(stdout)] =
                    Message("ERROR: Data directory not found", << >>)

\* the command has been invoked without its input directory and has ended
C9_Witness == ~dataDirExists /\ pc = "exited" /\ exitCode = {1}

IsReadable(file) == file.readable
IsWarning(m) == m.msg = "Warning: Could not read"

\* C10: for a file that cannot be read the Record Reader returns an empty
\* header and no rows and prints a warning; the file contributes nothing,
\* and the parameters extracted are those extracted when the unreadable
\* files are absent.
C10_UnreadableFileSkipped ==
    /\ \A i \in 1..Len(invFiles) :
          ~invFiles[i].readable =>
              parse_tab_delimited_file(invFiles[i])
                  = [headers |-> << >>, rows |-> << >>, warned |-> TRUE]
    /\ Called("parse_inventory_files") =>
          /\ parameters = InventoryFiles(<< >>, SelectSeq(invFiles, IsReadable))
          /\ Len(SelectSeq(stdout, IsWarning))
                = Cardinality({i \in 1..Len(invFiles) : ~invFiles[i].readable})

\* the first of two files could not be read, though it holds a data line,
\* and the second gave a parameter
C10_Witness ==
    /\ Called("parse_inventory_files")
    /\ Len(invFiles) = 2
    /\ ~invFiles[1].readable
    /\ Len(invFiles[1].lines) = 3
    /\ Len(parameters) = 1

\* C11 as stated: once the input-directory check has passed, a run that
\* starts extraction eventually has finished the three extraction phases and
\* the writing phase and ends with exit status 0, whatever the input files
\* hold: no row and no file aborts the run.
C11_AsStated ==
    [](pc = "inventory"
         => <>(/\ pc = "exited" /\ exitCode = {0}
               /\ \A x \in Extractors \cup Writers : Wrote(x, runNo)))

\* the records of a CSV file of the output directory, header row included
CsvRead(name) ==
    CsvParse(outDir[name].content)

\* C12: once write_csv_files has run, reading the three CSV files back and
\* leaving the header row out gives the records of the three collections,
\* one row per record, every field equal, the columns in the order of the
\* data model (3 for a parameter, 11 for a station, 8 for a result).
C12_RoundTrip ==
    Called("write_csv_files") =>
        /\ Tail(CsvRead("parameters.csv")) =
              [i \in 1..Len(parameters) |->
                  <<parameters[i].code, parameters[i].short_name,
                    parameters[i].long_name>>]
        /\ Tail(CsvRead("stations.csv")) =
              [i \in 1..Len(stations) |->
                  <<stations[i].agency, stations[i].station_id,
                    stations[i].station_name, stations[i].agency_name,
                    stations[i].state, stations[i].county,
                    stations[i].latitude, stations[i].longitude,
                    stations[i].huc, stations[i].station_type,
                    stations[i].description>>]
        /\ Tail(CsvRead("results.csv")) =
              [i \in 1..Len(results) |->
                  <<results[i].agency, results[i].station_id,
                    results[i].param_code, results[i].start_date,
                    results[i].start_time, results[i].result_value,
                    results[i].huc, results[i].sample_depth>>]
        /\ Head(CsvRead("parameters.csv")) = ParameterHeader
        /\ Head(CsvRead("stations.csv")) = StationHeader
        /\ Head(CsvRead("results.csv")) = ResultHeader

\* the files were written with a field that holds a quoted comma next to a
\* field that is a lone quote character, and with an empty field
C12_Witness ==
    /\ Called("write_csv_files")
    /\ \E i \in 1..Len(parameters) :
          /\ parameters[i].code = <<"\"", ",", "\"">>
          /\ parameters[i].short_name = <<"\"">>
    /\ \E i \in 1..Len(results) :
          results[i].agency = << >> /\ results[i].station_id = <<"\"">>
    /\ \E i \in 1..Len(stations) :
          stations[i].description = <<"\"">>

\* the row provides a State Name: the header names the column and the row
\* holds a non-empty value in it
ProvidesState(r) ==
    /\ InHeader(r.headers, <<"State Name">>)
    /\ FieldOr(r.row, HeaderIndex(r.headers, <<"State Name">>) + 1) # << >>

\* C13 as stated: the state field of a station record is the value of the
\* State Name column of the row the record was made from when that row
\* provides one, and the configured region name when it does not.
C13_AsStated ==
    Called("parse_station_files") =>
        LET rows == SelectSeq(RowsOf(staFiles), CarriesStation)
        IN \A i \in 1..Len(stations) : \A j \in 1..Len(rows) :
              (/\ CarriedStationId(rows[j]) = stations[i].station_id
               /\ \A k \in 1..(j - 1) :
                     CarriedStationId(rows[k]) # stations[i].station_id)
              => stations[i].state =
                    IF ProvidesState(rows[j])
                    THEN rows[j].row[HeaderIndex(rows[j].headers,
                                                 <<"State Name">>) + 1]
                    ELSE <<stateName>>

\* shLog[i] is the start of the execution of the script that is the current
\* one (running, or the last to have ended)
CurrentLoad(i) == shLog[i].op = "start" /\ shLog[i].load = loadNo

\* what the current execution of the script has done, in order: its calls
\* of sqlite3 and its messages, each with the table it is about
LoadTag(e) ==
    IF e.op = "sqlite3 .import" THEN <<e.op, e.data[1]>>
    ELSE IF e.op = "echo Imported" THEN <<e.op, e.data[2]>>
    ELSE <<e.op>>
LoadOps ==
    LET mine == SelectSeq(shLog, LAMBDA e : e.load = loadNo /\ e.op # "start")
    IN [i \in 1..Len(mine) |-> LoadTag(mine[i])]

\* the current execution has called sqlite3
CalledSqlite ==
    \E i \in 1..Len(shLog) :
        /\ shLog[i].load = loadNo
        /\ shLog[i].op \in {"sqlite3 schema.sql", "sqlite3 .import"}

\* C14 as stated: an execution of the load script that finds the database
\* file does nothing and succeeds: it does not apply the schema, imports no
\* CSV file, leaves the database file as it is and exits with status 0.
C14_AsStated ==
    \A i \in 1..Len(shLog) :
        (CurrentLoad(i) /\ shLog[i].data.db.exists) =>
            /\ db = shLog[i].data.db
            /\ ~CalledSqlite
            /\ shPc = "idle" => shExit = {0}

\* C14 amended: an execution of the load script that finds the database
\* file does not apply the schema, imports no CSV file and leaves the
\* database file as it is; it exits with status 0 when parameters.csv,
\* stations.csv and results.csv are all present, and with status 1 when one
\* of them is missing.
C14_NoOpWhenDbExists ==
    \A i \in 1..Len(shLog) :
        (CurrentLoad(i) /\ shLog[i].data.db.exists) =>
            /\ db = shLog[i].data.db
            /\ ~CalledSqlite
            /\ shPc = "idle" =>
                  shExit = IF shLog[i].data.csv THEN {0} ELSE {1}

\* the script has been run again after a load that went through, and has
\* ended with status 0 on the loaded database
C14_Witness ==
    /\ loadNo = 2 /\ shPc = "idle" /\ shExit = {0}
    /\ db.schema /\ Len(db.tables["results"]) > 0
    /\ \E i \in 1..Len(shLog) :
          shLog[i] = [load |-> 1, op |-> "echo Import complete", data |-> << >>]
    /\ LoadOps = << <<"echo Skipping import">> >>

\* the steps of a complete load, in the order of the script
FullLoad ==
    << <<"sqlite3 schema.sql">>, <<"echo Schema created">>,
       <<"sqlite3 .import", "parameters">>, <<"echo Imported", "parameters">>,
       <<"sqlite3 .import", "stations">>, <<"echo Imported", "stations">>,
       <<"sqlite3 .import", "results">>, <<"echo Imported", "results">>,
       <<"echo Import complete">> >>

\* C15: an execution of the load script that finds the three CSV files and
\* no database file applies the schema first and then loads parameters,
\* stations and results in this order, each import followed by the report
\* of the table's row count before the next begins: what it has done is at
\* every moment a beginning of that sequence, the whole of it when the
\* script ends with status 0, and every count reported is the number of
\* records of the table's CSV file.
C15_LoadOrder ==
    \A i \in 1..Len(shLog) :
        (CurrentLoad(i) /\ shLog[i].data.csv /\ ~shLog[i].data.db.exists) =>
            /\ Len(LoadOps) <= Len(FullLoad)
            /\ LoadOps = SubSeq(FullLoad, 1, Len(LoadOps))
            /\ (shPc = "idle" /\ shExit = {0}) => LoadOps = FullLoad
            /\ \A j \in 1..Len(shLog) :
                  (/\ shLog[j].load = loadNo
                   /\ shLog[j].op = "echo Imported"
                   /\ outDir[CsvFileOf(shLog[j].data[2])].exists)
                  => shLog[j].data[1] =
                        Len(CsvRead(CsvFileOf(shLog[j].data[2]))) - 1

\* a load has gone through and has put a result into the database
C15_Witness ==
    /\ shPc = "idle" /\ shExit = {0}
    /\ LoadOps = FullLoad
    /\ Len(db.tables["results"]) = 1
    /\ Len(db.tables["parameters"]) = 1

\* C16: an execution of the load script that finds parameters.csv,
\* stations.csv or results.csv missing prints the error and exits with
\* status 1 without anything else: it does not get to the test of the
\* database file, calls sqlite3 not once, and the database file is neither
\* created nor changed.
C16_CsvCheckFirst ==
    \A i \in 1..Len(shLog) :
        (CurrentLoad(i) /\ ~shLog[i].data.csv) =>
            /\ db = shLog[i].data.db
            /\ shPc \in {"check_csv", "idle"}
            /\ shPc = "idle" =>
                  /\ shExit = {1}
                  /\ LoadOps = << <<"echo ERROR: CSV files not found">> >>

\* the script was run with a CSV file missing after a load had made the
\* database, and ended with the error rather than with "Skipping import"
C16_Witness ==
    /\ shPc = "idle" /\ shExit = {1} /\ loadNo = 2
    /\ ~CsvFilesExist(outDir)
    /\ \E i \in 1..Len(shLog) : CurrentLoad(i) /\ ~shLog[i].data.csv
    /\ db.exists /\ db.schema

\* the orders in which n files can be enumerated, and a list of files
\* enumerated in another order
Orders(n) ==
    {p \in [1..n -> 1..n] : \A i, j \in 1..n : p[i] = p[j] => i = j}
Reordered(files, p) == [i \in 1..Len(files) |-> files[p[i]]]

Codes(params) == {params[i].code : i \in 1..Len(params)}
StationIds(stas) == {stas[i].station_id : i \in 1..Len(stas)}

\* two sequences hold the same records the same number of times
SameMultiset(a, b) ==
    /\ Len(a) = Len(b)
    /\ \A i \in 1..Len(a) :
          Cardinality({k \in 1..Len(a) : a[k] = a[i]})
              = Cardinality({k \in 1..Len(b) : b[k] = a[i]})

\* the current invocation was ended by an IndexError
Raised == \E i \in 1..Len(log) : log[i].op = "IndexError" /\ log[i].run = runNo

\* C17: whatever the order in which the files of a category are enumerated,
\* the run yields the same set of parameter codes, the same set of station
\* ids (or is ended by the same exception) and the same multiset of result
\* records: extraction over the files in any other order gives the key
\* sets and the results that this run has got.
C17_OrderIndependent ==
    /\ Called("parse_inventory_files") =>
          \A p \in Orders(Len(invFiles)) :
              Codes(InventoryFiles(<< >>, Reordered(invFiles, p)))
                  = Codes(parameters)
    /\ Called("parse_station_files") =>
          \A p \in Orders(Len(staFiles)) :
              LET st == StationFiles([raised |-> FALSE, dict |-> << >>],
                                     Reordered(staFiles, p), stateName)
              IN /\ st.raised = Raised
                 /\ ~st.raised => StationIds(st.dict) = StationIds(stations)
    /\ Called("parse_result_files") =>
          \A p \in Orders(Len(resFiles)) :
              SameMultiset(ResultFiles(<< >>, Reordered(resFiles, p)), results)

\* two files carry the same code with different names: the other order
\* keeps the other names, and the same code
C17_Witness ==
    /\ Called("parse_inventory_files")
    /\ Len(invFiles) = 2
    /\ Len(parameters) = 1
    /\ \E p \in Orders(2) :
          LET other == InventoryFiles(<< >>, Reordered(invFiles, p))
          IN other # parameters /\ Codes(other) = Codes(parameters)

IsSummary(m) == m.msg = "Summary"

\* C18 as stated: every run that ends with exit status 0 has printed, as
\* the last thing before it ends, the summary of the parameter, station and
\* result counts; this includes a run that skips extraction because the
\* three CSV files exist.
C18_AsStated ==
    (pc = "exited" /\ exitCode = {0}) =>
        /\ stdout # << >>
        /\ stdout[Len(stdout)].run = runNo
        /\ IsSummary(stdout[Len(stdout)])

\* C19: a result row of n >= 10 columns gives one record, in which every
\* field that the header of the file names holds the trimmed value at the
\* index the header gives when that index is below n, and the empty string
\* when it is n or more; a row of 14 columns under the conventional header
\* gives a record with param_code from index 11, start_date from index 12
\* and an empty sample_depth (index 16), and a row of 9 columns gives no
\* record.
C19_HeaderResolved ==
    Called("parse_result_files") =>
        LET rows == SelectSeq(RowsOf(resFiles), LAMBDA r : Len(r.row) >= 10)
        IN /\ Len(results) = Len(rows)
           /\ \A k \in 1..Len(rows) : \A fld \in ResultFields :
                 InHeader(rows[k].headers, fld[2]) =>
                    LET idx == HeaderIndex(rows[k].headers, fld[2])
                    IN results[k][fld[1]] =
                          IF idx < Len(rows[k].row)
                          THEN strip(rows[k].row[idx + 1])
                          ELSE << >>
           /\ \A k \in 1..Len(rows) :
                 (/\ rows[k].headers = StripFields(ResHeaderFull)
                  /\ Len(rows[k].row) = 14)
                 => /\ results[k].param_code = <<"v11">>
                    /\ results[k].start_date = <<"v12">>
                    /\ results[k].sample_depth = << >>

\* a row of 9 columns and a row of 14 columns under the conventional header
\* gave one record, that of the second row
C19_Witness ==
    /\ Called("parse_result_files")
    /\ Len(resFiles) = 1
    /\ resFiles[1].lines = <<ResHeaderFull, Separator, ResLine(9), ResLine(14)>>
    /\ Len(results) = 1
    /\ results[1].param_code = <<"v11">>
    /\ results[1].start_date = <<"v12">>
    /\ results[1].start_time = <<"v13">>
    /\ results[1].sample_depth = << >>

\* a line of nothing but whitespace (the tab between two fields is
\* whitespace too)
WhitespaceOnly(line) ==
    \A i \in 1..Len(line) : \A k \in 1..Len(line[i]) :
        line[i][k] \in Whitespace

\* the places, from the third line on, of the lines of a file that are not
\* whitespace only
DataPlaces(lines) == {k \in 3..Len(lines) : ~WhitespaceOnly(lines[k])}

\* the j-th of these places, in file order
DataPlace(lines, j) ==
    CHOOSE k \in DataPlaces(lines) :
        Cardinality({m \in DataPlaces(lines) : m < k}) = j - 1

\* a line split on the tab, every field trimmed
Trimmed(line) == [i \in 1..Len(line) |-> strip(line[i])]

\* C20: for a readable file of at least two lines the Record Reader returns
\* the first line, split on the tab and trimmed, as header, and as rows
\* exactly the lines from the third on that are not whitespace only, in
\* file order, each split on the tab and trimmed; the second line is never
\* among the rows, and the parameters extracted are those of these rows.
C20_ReaderRows ==
    \A f \in 1..Len(invFiles) :
        (invFiles[f].readable /\ Len(invFiles[f].lines) >= 2) =>
            LET lines  == invFiles[f].lines
                parsed == parse_tab_delimited_file(invFiles[f])
                rows   == [j \in 1..Cardinality(DataPlaces(lines)) |->
                              Trimmed(lines[DataPlace(lines, j)])]
            IN /\ parsed.headers = Trimmed(lines[1])
               /\ parsed.rows = rows
               /\ (Called("parse_inventory_files") /\ Len(invFiles) = 1)
                     => parameters = InventoryRows(<< >>, rows)

\* the second line was a line of data and gave no parameter; a blank line
\* was passed over and the line after it gave one
C20_Witness ==
    /\ Called("parse_inventory_files")
    /\ Len(invFiles) = 1
    /\ invFiles[1].lines =
          <<InvHeader, InvLineTemp, << <<" ">>, <<"\n">> >>, InvLinePh>>
    /\ Len(parameters) = 1
    /\ parameters[1].code = <<"00020">>
    /\ parameters[1].long_name = <<"pH (lab)">>

\* the data rows that inventory extraction gets from the Record Reader
InventoryDataRows == RowsOf(SelectSeq(invFiles, HasCounty))

\* the extractor keeps the row: met with a code not seen before, the row
\* gives a parameter
KeptRow(r) == InventoryRow(<< >>, r.row) # << >>

\* the codes of the rows that are kept
KeptCodes ==
    {InventoryDataRows[k].row[1] :
        k \in {kk \in 1..Len(InventoryDataRows) : KeptRow(InventoryDataRows[kk])}}

\* C21 as stated: parameter extraction keeps an inventory data row if and
\* only if its code (first field) is non-empty, is not the token 'Code' and
\* does not start with '---', whatever the number of fields of the row.
C21_AsStated ==
    Called("parse_inventory_files") =>
        /\ \A k \in 1..Len(InventoryDataRows) :
              KeptRow(InventoryDataRows[k])
                  <=> ValidCode(InventoryDataRows[k].row[1])
        /\ Codes(parameters) = KeptCodes

\* C21 amended: parameter extraction keeps an inventory data row if and
\* only if the row has at least three fields and its code (first field) is
\* non-empty, is not the token 'Code' and does not start with '---'; the
\* codes of the parameter collection are the codes of the rows kept.
C21_KeptRows ==
    Called("parse_inventory_files") =>
        /\ \A k \in 1..Len(InventoryDataRows) :
              KeptRow(InventoryDataRows[k])
                  <=> (/\ Len(InventoryDataRows[k].row) >= 3
                       /\ ValidCode(InventoryDataRows[k].row[1]))
        /\ Codes(parameters) = KeptCodes

\* a row of two fields with a good code gave no parameter, next to a row of
\* three fields that gave one
C21_Witness ==
    /\ Called("parse_inventory_files")
    /\ Len(parameters) = 1
    /\ \E k \in 1..Len(InventoryDataRows) :
          /\ Len(InventoryDataRows[k].row) = 2
          /\ ValidCode(InventoryDataRows[k].row[1])
          /\ ~HasCode(parameters, InventoryDataRows[k].row[1])

\* C22: result extraction validates no reference: every row that passes
\* the 10-column gate gives a record, in file order then row order, also
\* when its station_id or param_code is empty or occurs in no station or
\* parameter; the result collection is determined by the result files
\* alone, whatever the station and the parameter collection hold.
C22_NoReferentialCheck ==
    Called("parse_result_files") =>
        LET rows == SelectSeq(RowsOf(resFiles), PassesGate)
        IN /\ Len(results) = Len(rows)
           /\ \A k \in 1..Len(rows) :
                 /\ results[k].station_id =
                       Resolve(rows[k].headers, rows[k].row, <<"Station">>, 1)
                 /\ results[k].param_code =
                       Resolve(rows[k].headers, rows[k].row, <<"Param">>, 11)
                 /\ results[k] = ResultData(rows[k].headers, rows[k].row)

\* with a station and a parameter parsed, one result without station id and
\* parameter code was kept, and one whose station id and parameter code
\* are those of no station and no parameter
C22_Witness ==
    /\ Called("parse_result_files")
    /\ Len(parameters) = 1 /\ Len(stations) = 1
    /\ \E i, j \in 1..Len(results) :
          /\ results[i].station_id = << >> /\ results[i].param_code = << >>
          /\ results[j].station_id # << >> /\ results[j].param_code # << >>
          /\ results[j].station_id \notin StationIds(stations)
          /\ results[j].param_code \notin Codes(parameters)

\* the method whose call this step is, "" when the step is no call
StepOp == IF Len(log') > Len(log) THEN log'[Len(log) + 1].op ELSE ""

\* C23: each extractor changes only its own collection: a call of
\* parse_inventory_files leaves stations and results as they are, a call of
\* parse_station_files parameters and results, a call of
\* parse_result_files parameters and stations; a call of write_csv_files,
\* write_sqlite_schema or write_import_script changes none of the three.
C23_OwnCollectionOnly ==
    [][/\ StepOp = "parse_inventory_files"
            => stations' = stations /\ results' = results
       /\ StepOp = "parse_station_files"
            => parameters' = parameters /\ results' = results
       /\ StepOp = "parse_result_files"
            => parameters' = parameters /\ stations' = stations
       /\ StepOp \in Writers
            => /\ parameters' = parameters
               /\ stations' = stations
               /\ results' = results]_vars

\* parse_inventory_files was called on an object that held a station and
\* a result, and the CSV files were written after that
C23_Witness ==
    /\ Len(log) = 4
    /\ log[1].op = "parse_station_files"
    /\ log[2].op = "parse_result_files"
    /\ log[3].op = "parse_inventory_files"
    /\ log[4].op = "write_csv_files"
    /\ Len(parameters) = 1 /\ Len(stations) = 1 /\ Len(results) = 1

\* the number of calls of a method made so far
CallsOf(op) == Len(SelectSeq(log, LAMBDA e : e.op = op))

\* a is a beginning of b
IsPrefix(a, b) == Len(a) <= Len(b) /\ a = SubSeq(b, 1, Len(a))

\* C24: on one parser object and the same files, a second or later call of
\* parse_inventory_files or parse_station_files leaves the parameter or
\* station collection equal to what the first call made it; every call of
\* parse_result_files appends the valid rows again, so that after the
\* second call the result collection is the result of the first call twice
\* over; no operation clears or shortens the result collection.
C24_Reinvocation ==
    [][/\ (StepOp = "parse_inventory_files" /\ CallsOf(StepOp) >= 1)
            => parameters' = parameters
       /\ (StepOp = "parse_station_files" /\ CallsOf(StepOp) >= 1)
            => stations' = stations
       /\ (StepOp = "parse_result_files" /\ CallsOf(StepOp) >= 1)
            => /\ Len(results') * CallsOf(StepOp)
                     = Len(results) * (CallsOf(StepOp) + 1)
               /\ results' = results \o
                     SubSeq(results, 1, Len(results) \div CallsOf(StepOp))
       /\ (StepOp = "parse_result_files" /\ CallsOf(StepOp) = 1)
            => results' = results \o results
       /\ IsPrefix(results, results')]_vars

\* both parse_inventory_files and parse_result_files were called twice:
\* there is one parameter still, and the one result is there twice
C24_Witness ==
    /\ CallsOf("parse_inventory_files") = 2
    /\ CallsOf("parse_result_files") = 2
    /\ Len(parameters) = 1
    /\ Len(results) = 2
    /\ results[1] = results[2]

\* the invocation of this number has ended
Ended(run) == run < runNo \/ pc = "exited"

\* C25 as stated: a run that finds parameters.csv, stations.csv or
\* results.csv missing carries out the three extractions and writes all
\* three CSV files, those that were there included: when it has ended, it
\* has called the three extractors and write_csv_files, and as long as
\* nobody touches them the three files hold what this run has extracted.
C25_AsStated ==
    \A i \in 1..Len(log) :
        (ParsingRun(i) /\ Ended(log[i].run)) =>
            /\ \A x \in Extractors \cup {"write_csv_files"} :
                  Wrote(x, log[i].run)
            /\ (log[i].run = runNo /\ log[Len(log)].op # "by hand") =>
                  /\ outDir["parameters.csv"] = File(ParametersCsv(parameters))
                  /\ outDir["stations.csv"] = File(StationsCsv(stations))
                  /\ outDir["results.csv"] = File(ResultsCsv(results))

\* the execution of this number was a load (the three CSV files there, no
\* database file) that did not get to its end: set -e ended the script
AbortedLoad(k) ==
    /\ k < loadNo
    /\ \E i \in 1..Len(shLog) :
          /\ shLog[i].load = k /\ shLog[i].op = "start"
          /\ shLog[i].data.csv /\ ~shLog[i].data.db.exists
    /\ \A i \in 1..Len(shLog) :
          shLog[i].load = k => shLog[i].op # "echo Import complete"

\* the current execution comes after an aborted one and has found the
\* database file that the aborted one left
AfterAbortedLoad(i) ==
    /\ CurrentLoad(i)
    /\ shLog[i].data.db.exists
    /\ \E k \in 1..(loadNo - 1) : AbortedLoad(k)

\* the table holds the records of its CSV file
FullyLoaded(t) ==
    /\ outDir[CsvFileOf(t)].exists
    /\ db.tables[t] = Tail(CsvRead(CsvFileOf(t)))

\* C26 as stated: when an execution of the load script was aborted after
\* the database file had been created, every later execution finds the
\* database file, skips the import and exits with status 0, and the
\* database stays as the aborted execution left it.
C26_AsStated ==
    \A i \in 1..Len(shLog) :
        AfterAbortedLoad(i) =>
            /\ db = shLog[i].data.db
            /\ ~CalledSqlite
            /\ shPc = "idle" =>
                  /\ shExit = {0}
                  /\ LoadOps = << <<"echo Skipping import">> >>

\* C26 amended: when an execution of the load script was aborted after the
\* database file had been created, every later execution calls sqlite3 not
\* once and leaves the database as the aborted execution left it: with the
\* three CSV files present it skips the import and exits with status 0,
\* with one of them missing it prints the error and exits with status 1.
C26_AbortedLoadStays ==
    \A i \in 1..Len(shLog) :
        AfterAbortedLoad(i) =>
            /\ db = shLog[i].data.db
            /\ ~CalledSqlite
            /\ shPc = "idle" =>
                  IF shLog[i].data.csv
                  THEN /\ shExit = {0}
                       /\ LoadOps = << <<"echo Skipping import">> >>
                  ELSE /\ shExit = {1}
                       /\ LoadOps = << <<"echo ERROR: CSV files not found">> >>

\* a load was aborted between the import of the parameters and that of
\* the results; the script, run again, has ended with status 0 on a
\* database whose results table is empty, though results.csv holds a record
C26_Witness ==
    /\ loadNo = 2 /\ shPc = "idle" /\ shExit = {0}
    /\ AbortedLoad(1)
    /\ db.exists /\ db.schema
    /\ FullyLoaded("parameters") /\ Len(db.tables["parameters"]) = 1
    /\ ~FullyLoaded("results") /\ db.tables["results"] = << >>
    /\ Len(CsvRead("results.csv")) = 2

\* the same file, when it cannot be read
Unreadable(file) == [file EXCEPT !.readable = FALSE]

\* C27: for a readable file of fewer than two lines (no line, or one line)
\* the Record Reader returns an empty header and no rows, which is what it
\* returns for the file when it cannot be read, and the three extractors
\* get nothing from the file; for a file of exactly two lines it returns
\* the first line, split and trimmed, as header, and no rows.
C27_ShortFile ==
    \A f \in 1..Len(invFiles) :
        LET file   == invFiles[f]
            parsed == parse_tab_delimited_file(file)
        IN /\ (file.readable /\ Len(file.lines) < 2) =>
                 /\ parsed.headers = << >>
                 /\ parsed.rows = << >>
                 /\ parsed.headers = parse_tab_delimited_file(Unreadable(file)).headers
                 /\ parsed.rows = parse_tab_delimited_file(Unreadable(file)).rows
                 /\ (Called("parse_inventory_files") /\ Len(invFiles) = 1)
                       => parameters = << >>
                 /\ InventoryFile(<< >>, file) = << >>
                 /\ StationFile([raised |-> FALSE, dict |-> << >>], file,
                                stateName).dict = << >>
                 /\ ResultFile(<< >>, file) = << >>
           /\ (file.readable /\ Len(file.lines) = 2) =>
                 /\ parsed.headers = Trimmed(file.lines[1])
                 /\ parsed.rows = << >>
                 /\ (Called("parse_inventory_files") /\ Len(invFiles) = 1)
                       => parameters = << >>

\* the one line of the file was a line of data: it gave no parameter
C27_Witness ==
    /\ Called("parse_inventory_files")
    /\ Len(invFiles) = 1
    /\ invFiles[1].readable
    /\ invFiles[1].lines = <<InvLineTemp>>
    /\ parameters = << >>
    /\ stdout = <<Message("Initializing parser", << >>),
                  Message("EPA STORET Data Parser", << >>)>>

\* rows[j] is the row the station record of this id was made from: the
\* first row that carries the id
SourceRow(rows, j, station_id) ==
    /\ CarriedStationId(rows[j]) = station_id
    /\ \A k \in 1..(j - 1) : CarriedStationId(rows[k]) # station_id

\* C28: in every station record the description is the last field of the
\* row the record was made from, trimmed, whatever the length of the row
\* and whatever the header of its file; for a row of two fields it is the
\* second field of the row.
C28_DescriptionIsLastField ==
    Called("parse_station_files") =>
        LET rows == SelectSeq(RowsOf(staFiles), CarriesStation)
        IN \A i \in 1..Len(stations) : \A j \in 1..Len(rows) :
              SourceRow(rows, j, stations[i].station_id) =>
                  /\ stations[i].description = rows[j].row[Len(rows[j].row)]
                  /\ Len(rows[j].row) = 2 =>
                        stations[i].description = rows[j].row[2]

\* a row of two fields gave a station whose description is its station
\* id, and a row of three fields one whose description is its third field
C28_Witness ==
    /\ Called("parse_station_files")
    /\ \E i, j \in 1..Len(stations) :
          /\ stations[i].station_id = <<"S2">>
          /\ stations[i].description = <<"S2">>
          /\ stations[j].station_id = <<"S1">>
          /\ stations[j].description = <<"Lake">>

\* every file of the input directory can be read
AllReadable ==
    /\ \A i \in 1..Len(invFiles) : invFiles[i].readable
    /\ \A i \in 1..Len(staFiles) : staFiles[i].readable
    /\ \A i \in 1..Len(resFiles) : resFiles[i].readable

\* every station row of two fields or more holds the field that the
\* Station column of its header, or the second position, points to
StationRowsLongEnough ==
    LET rows == RowsOf(staFiles)
    IN \A j \in 1..Len(rows) :
          Len(rows[j].row) >= 2 =>
              (IF InHeader(rows[j].headers, <<"Station">>)
               THEN HeaderIndex(rows[j].headers, <<"Station">>)
               ELSE 1) < Len(rows[j].row)

\* what WashingtonDataParser extracts from the input directory
WashingtonParameters == WashingtonInventoryFiles(WashingtonFresh, invFiles)
WashingtonStations == WashingtonStationFiles(WashingtonFresh, staFiles)
WashingtonResults == WashingtonResultFiles(WashingtonFresh, resFiles)

\* a station record without its state
WithoutState(s) == [s EXCEPT !.state = << >>]

\* C29: on an input directory whose files can all be read and whose station
\* rows are long enough for the Station column, StateDataParser for WA /
\* Washington and WashingtonDataParser extract the same parameter
\* collection, the same result collection and the same set of station ids,
\* and the station records of one id are equal in every field but state;
\* neither parser is ended by an exception.
C29_SameAsWashingtonParser ==
    (AllReadable /\ StationRowsLongEnough /\ stateName = "Washington") =>
        /\ ~Raised
        /\ Called("parse_inventory_files") =>
              LET washington == WashingtonParameters
              IN /\ ~washington.raised
                 /\ parameters = washington.dict
        /\ Called("parse_station_files") =>
              LET washington == WashingtonStations
              IN /\ ~washington.raised
                 /\ StationIds(stations) = StationIds(washington.dict)
                 /\ \A i \in 1..Len(stations) :
                       \A j \in 1..Len(washington.dict) :
                          stations[i].station_id
                              = washington.dict[j].station_id
                          => WithoutState(stations[i])
                                = WithoutState(washington.dict[j])
        /\ Called("parse_result_files") =>
              LET washington == WashingtonResults
              IN /\ ~washington.raised
                 /\ results = washington.dict

\* both parsers have made the same two stations from a file with a State
\* Name column: for the row that holds the column WashingtonDataParser has
\* taken the state from it, for the row too short for it both have the
\* state Washington
C29_Witness ==
    /\ AllReadable /\ StationRowsLongEnough
    /\ Called("parse_result_files")
    /\ Len(stations) = 2
    /\ Len(WashingtonStations.dict) = 2
    /\ \E i, j \in 1..2 :
          /\ stations[i].state = <<"Washington">>
          /\ WashingtonStations.dict[i].state = <<"Lake">>
          /\ stations[j].state = <<"Washington">>
          /\ WashingtonStations.dict[j].state = <<"Washington">>
    /\ \A i \in 1..2 :
          WithoutState(stations[i]) = WithoutState(WashingtonStations.dict[i])

\* the rows of the table as they are inserted: each converted, in the
\* order of the cursor
Converted(rows) == [i \in 1..Len(rows) |-> ConvertRow(rows[i])]

\* the sum of the batch sizes
RECURSIVE Sum(_)
Sum(sizes) == IF sizes = << >> THEN 0 ELSE Head(sizes) + Sum(Tail(sizes))

\* the rows the cursor has yielded so far
Fetched == SubSeq(ctSource, 1, ctNext - 1)

\* C30: copy_table inserts every row that the source cursor yields exactly
\* once and in the order of the cursor, for every number of rows and every
\* batch_size >= 1: at every moment the rows inserted followed by those in
\* the batch are the rows fetched, every row inserted is committed and
\* counted, a batch is inserted as soon as it holds batch_size rows, and
\* when copy_table returns all rows of the table are in the target, the
\* last batch included (the only one that may be smaller than batch_size),
\* and copied is the number of rows fetched.
C30_CopyTable ==
    /\ ctPc = "loop" =>
          /\ ctTarget \o ctBatch = Converted(Fetched)
          /\ Len(ctBatch) < ctBatchSize
          /\ \A k \in 1..Len(ctLog) : ctLog[k] = ctBatchSize
    /\ ctPc \in {"loop", "done"} =>
          /\ ctCopied = Len(ctTarget)
          /\ ctCommitted = Len(ctTarget)
          /\ Sum(ctLog) = Len(ctTarget)
          /\ ctTotal = Len(ctSource)
    /\ ctPc = "done" =>
          /\ ctTarget = Converted(ctSource)
          /\ ctCopied = Len(ctSource)
          /\ \A k \in 1..Len(ctLog) :
                /\ ctLog[k] >= 1
                /\ ctLog[k] <= ctBatchSize
                /\ k < Len(ctLog) => ctLog[k] = ctBatchSize
          /\ Len(ctLog) * ctBatchSize >= Len(ctSource)
          /\ Len(ctSource) > (Len(ctLog) - 1) * ctBatchSize
                \/ ctSource = << >>

\* four rows were copied with batch_size 3: a batch of three and then the
\* one row left; a Decimal went in as a float
C30_Witness ==
    /\ ctPc = "done"
    /\ ctBatchSize = 3
    /\ Len(ctSource) = 4
    /\ ctLog = <<3, 1>>
    /\ ctCopied = 4
    /\ ctSource[4] = <<Value("str", "b"), Value("Decimal", "1.5")>>
    /\ ctTarget[4] = <<Value("str", "b"), Value("float", "1.5")>>

====
